---- MODULE Spec2Model ----
(***************************************************************************)
(* Verification model of LineageOS extract-utils:                          *)
(*   - ExtractUtilsModule.process and the per-file reconciliation          *)
(*     (src/extract_utils/module.py), specification Spec;                  *)
(*   - directive parsing and rendering, File.__init__ / File.__str__       *)
(*     (src/extract_utils/file.py), specification SpecFile;                *)
(*   - FileTree / CommonFileTree (src/extract_utils/file.py),              *)
(*     specification SpecTree.                                             *)
(***************************************************************************)
EXTENDS Naturals, Sequences, FiniteSets, TLC

(***************************************************************************)
(* Bounds of the model.                                                    *)
(***************************************************************************)
\* number of entities in the proprietary file list of the run
NumFiles == 2
\* file contents are 1..MaxContent
MaxContent == 2

\* a directive line of the model has at most MaxArgs ';' clauses
MaxArgs == 2
\* ... and at most MaxHashes '|' clauses
MaxHashes == 3

\* the number of File objects added to file trees
MaxAdds == 4

\* the number of calls of filter_prefixed
MaxFilters == 2
MaxSteps == 5
MaxRuns == 2
MaxLines == 2

\* the file a content fixup works on has at most MaxFileLen characters
MaxFileLen == 3
\* ... and the fixup is applied to it at most MaxApplies times
MaxApplies == 2
\* a pattern or a replacement of sig_replace has at most MaxTokens tokens
MaxTokens == 2

\* ExtractUtils.run works on NumModules modules of FilesPerModule files
NumModules == 2
FilesPerModule == 2

Files == 1..NumFiles
Contents == 1..MaxContent

(***************************************************************************)
(* Reconciliation state (module.py).                                       *)
(***************************************************************************)
VARIABLES
    kang,           \* process(kang=...)
    no_cleanup,     \* process(no_cleanup=...)
    section,        \* process(section=...): "None" or a section name
    blob_fixups,    \* destinations that have a blob fixup function
    file,           \* the File entities: hash, fixup_hash, args
    vendor,         \* output tree: destination -> content (partial)
    backup,         \* backup_dir: destination -> content (partial)
    pc,             \* position in process(); "done" when it has returned,
                    \* "raised" when an exception has ended it
    idx,            \* position of the loop of process_proprietary_files
    fpc,            \* position in process_file for file idx
    all_copied,     \* local of process_proprietary_files
    log,            \* per file: writes to its output path, in order
    prev_vendor,    \* the output tree as the previous run left it
    restore_tried,  \* files for which backup_source.copy_file_to_path was called
    src_tried,      \* files for which source.copy_file_to_path was called
    src_copy,       \* per file: content copied from the live source (partial)
    res_restored,   \* per file: process_pinned_file(restored=True) result
    res_found,      \* per file: process_pinned_file(restored=False) result
    ret,            \* per file: return value of process_file (partial)
    warned          \* per file: process_kanged_file printed the warning

recon_vars == <<kang, no_cleanup, section, blob_fixups, file, vendor, backup,
                pc, idx, fpc, all_copied, log, prev_vendor, restore_tried,
                src_tried, src_copy, res_restored, res_found, ret, warned>>

(***************************************************************************)
(* Directive parsing state (file.py, class File).                          *)
(***************************************************************************)
VARIABLES
    line,           \* the directive line given to File(line)
    parsed,         \* the File built from it (or the error raised)
    rendered,       \* str(file)
    ppc             \* "line", "parsed", "raised", "rendered"; "idle"

file_vars == <<line, parsed, rendered, ppc>>

(***************************************************************************)
(* File trees: a FileTree that files are added to and prefixes are         *)
(* filtered from, and the CommonFileTree of two filtered trees.            *)
(***************************************************************************)
VARIABLES
    base_file_tree,     \* the FileTree files are added to
    lib32_tree,         \* a tree returned by filter_prefixed
    lib64_tree,         \* another tree returned by filter_prefixed
    lib_common_tree,    \* a CommonFileTree: new, or returned by common_files
    nadds,              \* the number of File objects made so far
    nfilters,           \* the number of calls of filter_prefixed so far
    last,               \* history: the last operation and its outcome (for
                        \* an add: the list the path held before it, and
                        \* whether it left the tree as it was)
    dup_seen,           \* history: the kinds of tree that were given a
                        \* file whose path already held a list of files
    tpc                 \* "open"; "idle"

tree_vars == <<base_file_tree, lib32_tree, lib64_tree, lib_common_tree,
               nadds, nfilters, last, dup_seen, tpc>>

(***************************************************************************)
(* State of one blob_fixup object (fixups_blob.py): its attached steps,   *)
(* the temporary directories on disk, and the position of run().          *)
(***************************************************************************)
VARIABLES
    functions,        \* __functions: need_tmp_dir of each attached step
    create_tmp_dir,   \* __create_tmp_dir
    bpc,              \* "build", "running", "returned" or "raised"
    step,             \* the step the loop of run() is at
    tmp_dir,          \* the tmp_dir the inner run() was called with, 0 = None
    tmp_dirs,         \* the temporary directories that exist
    ntmp,             \* temporary directories created so far
    made,             \* temporary directories created by this run() call
    received,         \* tmp_dir each step of this call was given
    nruns,            \* run() calls so far
    names,            \* the name of each attached step, as functions
    invoked           \* history: the steps this run() call has invoked

fixup_vars == <<functions, create_tmp_dir, bpc, step, tmp_dir, tmp_dirs,
                ntmp, made, received, nruns, names, invoked>>

(***************************************************************************)
(* State of one FileList (file.py) filled by add_from_lines, and of       *)
(* write_product_packages (makefiles.py) run over its package_files.      *)
(***************************************************************************)
VARIABLES
    lines_in,          \* the (section, File) pairs of the lines, in file order
    list_section,      \* FileList.__section
    check_elf,         \* FileList.__check_elf
    sorted_files,      \* the local `files` of add_from_lines after the sort
    lidx,              \* the pair the loop over `files` is at
    list_files,        \* FileList.files: dst -> File
    list_pinned_files, \* FileList.pinned_files: dst -> File
    package_symlinks,  \* FileList.package_symlinks: dst -> File
    copy_files,        \* FileList.copy_files: dst -> File
    package_files,     \* FileList.package_files, a FileTree
    replaced,          \* history: the files a SimpleFileList.add overwrote
    packaged,          \* history: the files package_files held when built
    written,           \* the (group, file) pairs write_product_packages wrote
    lpc                \* "lines", "adding", "built", "raised", "written",
                       \* "asserted"

list_vars == <<lines_in, list_section, check_elf, sorted_files, lidx,
               list_files, list_pinned_files, package_symlinks, copy_files,
               package_files, replaced, packaged, written, lpc>>

(***************************************************************************)
(* The file one content fixup of blob_fixup works on (fixups_blob.py,      *)
(* add_line_if_missing_impl and sig_replace_impl).                         *)
(***************************************************************************)
VARIABLES
    blob,              \* the content of the file at file_path, a sequence
    blob_hist,         \* history: the contents before each application
    blob_fn            \* the arguments bound to the impl by partial()

blob_vars == <<blob, blob_hist, blob_fn>>

(***************************************************************************)
(* One run of ExtractUtils.run (main.py) over the files of its modules.    *)
(***************************************************************************)
VARIABLES
    eu_kang,           \* self.__args.kang
    eu_module,         \* the module the loop of process_modules is at
    eu_file_no,        \* the file the loop of process_module_files is at
    eu_module_copied,  \* all_copied, the local of process_module_files
    eu_all_copied,     \* all_copied, the local of process_modules
    eu_last,           \* the last file processed and what became of it
    eu_missing,        \* history: the files that no copy_file found
    eu_failed,         \* history: the files whose processing returned False
    eu_calls,          \* the writing steps run() has called, in order
    eu_pc              \* "idle", "processing", "processed", "writing",
                       \* "returned", "raised"

main_vars == <<eu_kang, eu_module, eu_file_no, eu_module_copied,
               eu_all_copied, eu_last, eu_missing, eu_failed, eu_calls,
               eu_pc>>

vars == <<recon_vars, file_vars, tree_vars, fixup_vars, list_vars, blob_vars,
          main_vars>>

\* what the actions of one part of the model leave alone
not_recon_vars == <<file_vars, tree_vars, fixup_vars, list_vars, blob_vars,
    main_vars>>
not_file_vars == <<recon_vars, tree_vars, fixup_vars, list_vars, blob_vars,
    main_vars>>
not_tree_vars == <<recon_vars, file_vars, fixup_vars, list_vars, blob_vars,
    main_vars>>
not_fixup_vars == <<recon_vars, file_vars, tree_vars, list_vars, blob_vars,
    main_vars>>
not_list_vars == <<recon_vars, file_vars, tree_vars, fixup_vars, blob_vars,
    main_vars>>
not_blob_vars == <<recon_vars, file_vars, tree_vars, fixup_vars, list_vars,
    main_vars>>
not_main_vars == <<recon_vars, file_vars, tree_vars, fixup_vars, list_vars,
    blob_vars>>

None == "None"

\* file_path_hash with hashlib.sha1: a digest string, never the content itself
Hash(c) == "sha1:" \o ToString(c)

Digests == {Hash(c) : c \in Contents}

MATCH == "MATCH"
MISMATCH == "MISMATCH"
BAD_FIXUP == "BAD_FIXUP"

\* a partial map with key k set to v (a file written at a path)
Put(m, k, v) == [x \in (DOMAIN m) \cup {k} |-> IF x = k THEN v ELSE m[x]]

EmptyDir == [x \in {} |-> 0]

should_fixup_file(f) ==
    \/ "FIX_XML" \in file[f].args
    \/ "FIX_SONAME" \in file[f].args
    \/ f \in blob_fixups

\* mutant: the comparison with the pinned hash inverted
process_pinned_file_no_fixups_inverted(fl, pre_fixup_hash) ==
    IF fl.hash # pre_fixup_hash THEN MATCH ELSE MISMATCH

process_pinned_file_no_fixups(fl, pre_fixup_hash) ==
    IF fl.hash = pre_fixup_hash THEN MATCH ELSE MISMATCH

\* mutant: without the early MATCH on a file that already has the fixup hash
process_pinned_file_no_early_match(f, content, post) ==
    LET fl == file[f]
        should_fixup == should_fixup_file(f)
        pre_fixup_hash == Hash(content)
        post_fixup_hash == Hash(post)
    IN  IF ~should_fixup /\ fl.fixup_hash # None
          THEN [result |-> BAD_FIXUP, fixed |-> FALSE]
        ELSE IF ~should_fixup /\ fl.fixup_hash = None
          THEN [result |-> process_pinned_file_no_fixups(fl, pre_fixup_hash),
                fixed |-> FALSE]
        ELSE IF fl.fixup_hash # None /\ fl.hash # pre_fixup_hash
          THEN [result |-> MISMATCH, fixed |-> FALSE]
        ELSE IF fl.fixup_hash = None
          THEN [result |-> MATCH, fixed |-> TRUE]
        ELSE IF fl.fixup_hash # post_fixup_hash
          THEN [result |-> BAD_FIXUP, fixed |-> TRUE]
        ELSE [result |-> MATCH, fixed |-> TRUE]

\* mutant: the post-fixup hash is not compared with the fixup hash
process_pinned_file_unchecked_post(f, content, post) ==
    LET fl == file[f]
        should_fixup == should_fixup_file(f)
        pre_fixup_hash == Hash(content)
    IN  IF ~should_fixup /\ fl.fixup_hash # None
          THEN [result |-> BAD_FIXUP, fixed |-> FALSE]
        ELSE IF ~should_fixup /\ fl.fixup_hash = None
          THEN [result |-> process_pinned_file_no_fixups(fl, pre_fixup_hash),
                fixed |-> FALSE]
        ELSE IF fl.fixup_hash # None /\ fl.fixup_hash = pre_fixup_hash
          THEN [result |-> MATCH, fixed |-> FALSE]
        ELSE IF fl.fixup_hash # None /\ fl.hash # pre_fixup_hash
          THEN [result |-> MISMATCH, fixed |-> FALSE]
        ELSE [result |-> MATCH, fixed |-> TRUE]

\* process_pinned_file on a materialized file holding `content`; `post` is
\* the content fixup_module_file leaves, used only on the path that runs it.
\* result: the PinnedFileProcessResult; fixed: fixup_module_file was run.
process_pinned_file(f, content, post) ==
    LET fl == file[f]
        should_fixup == should_fixup_file(f)
        pre_fixup_hash == Hash(content)
        post_fixup_hash == Hash(post)
    IN  IF ~should_fixup /\ fl.fixup_hash # None
          THEN [result |-> BAD_FIXUP, fixed |-> FALSE]
        ELSE IF ~should_fixup /\ fl.fixup_hash = None
          THEN [result |-> process_pinned_file_no_fixups(fl, pre_fixup_hash),
                fixed |-> FALSE]
        ELSE IF fl.fixup_hash # None /\ fl.fixup_hash = pre_fixup_hash
          THEN [result |-> MATCH, fixed |-> FALSE]
        ELSE IF fl.fixup_hash # None /\ fl.hash # pre_fixup_hash
          THEN [result |-> MISMATCH, fixed |-> FALSE]
        ELSE IF fl.fixup_hash = None
          THEN [result |-> MATCH, fixed |-> TRUE]
        ELSE IF fl.fixup_hash # post_fixup_hash
          THEN [result |-> BAD_FIXUP, fixed |-> TRUE]
        ELSE [result |-> MATCH, fixed |-> TRUE]

\* FileList.pinned_files: the entities that carry a pinned hash
pinned_files == {f \in Files : file[f].hash # None}

\* the pins a parsed directive can carry: a fixup hash only after a hash
Pins == {p \in [hash : Digests \cup {None}, fixup_hash : Digests \cup {None}] :
            p.fixup_hash # None => p.hash # None}

ArgSets == {{}, {"FIX_XML"}, {"FIX_SONAME"}}

Entities == {[hash |-> p.hash, fixup_hash |-> p.fixup_hash, args |-> a] :
                p \in Pins, a \in ArgSets}

InitModule ==
    /\ kang \in BOOLEAN
    /\ no_cleanup \in BOOLEAN
    /\ section \in {None, "Section"}
    /\ blob_fixups \in {{}, {1}}
    /\ file \in [Files -> Entities]
    /\ \E present \in SUBSET Files : vendor \in [present -> Contents]
    /\ prev_vendor = vendor
    /\ restore_tried = {}
    /\ src_tried = {}
    /\ backup = EmptyDir
    /\ pc = "backup"
    /\ idx = 1
    /\ fpc = "begin"
    /\ all_copied = TRUE
    /\ log = [f \in Files |-> <<>>]
    /\ src_copy = EmptyDir
    /\ res_restored = [f \in Files |-> None]
    /\ res_found = [f \in Files |-> None]
    /\ ret = EmptyDir
    /\ warned = [f \in Files |-> FALSE]

\* process: `if not kang: self.backup_pinned_files(backup_dir)`
backup_pinned_files ==
    /\ pc = "backup"
    /\ backup' = IF kang THEN backup
                 ELSE [f \in pinned_files \cap DOMAIN vendor |-> vendor[f]]
    /\ pc' = "cleanup"
    /\ UNCHANGED <<kang, no_cleanup, section, blob_fixups, file, vendor, idx,
                   fpc, all_copied, log, prev_vendor, restore_tried,
                   src_tried, src_copy, res_restored, res_found, ret, warned>>
    /\ UNCHANGED not_recon_vars

\* mutant: the output tree is wiped whatever section and no_cleanup are
cleanup_always ==
    /\ pc = "cleanup"
    /\ vendor' = EmptyDir
    /\ pc' = "files"
    /\ UNCHANGED <<kang, no_cleanup, section, blob_fixups, file, backup, idx,
                   fpc, all_copied, log, prev_vendor, restore_tried,
                   src_tried, src_copy, res_restored, res_found, ret, warned>>
    /\ UNCHANGED not_recon_vars

\* process: `if section is None and not no_cleanup: self.cleanup()`
cleanup ==
    /\ pc = "cleanup"
    /\ vendor' = IF section = None /\ ~no_cleanup THEN EmptyDir ELSE vendor
    /\ pc' = "files"
    /\ UNCHANGED <<kang, no_cleanup, section, blob_fixups, file, backup, idx,
                   fpc, all_copied, log, prev_vendor, restore_tried,
                   src_tried, src_copy, res_restored, res_found, ret, warned>>
    /\ UNCHANGED not_recon_vars

\* mutant: the loop ends at the first file that was not copied
Return_stops(b) ==
    /\ ret' = Put(ret, idx, b)
    /\ all_copied' = (all_copied /\ b)
    /\ idx' = idx + 1
    /\ fpc' = "begin"
    /\ pc' = IF idx = NumFiles \/ ~b THEN "done" ELSE "files"

\* process_file returns b; the loop of process_proprietary_files folds it
\* into all_copied and moves to the next file
Return(b) ==
    /\ ret' = Put(ret, idx, b)
    /\ all_copied' = (all_copied /\ b)
    /\ idx' = idx + 1
    /\ fpc' = "begin"
    /\ pc' = IF idx = NumFiles THEN "done" ELSE "files"

Continue(next) ==
    /\ fpc' = next
    /\ UNCHANGED <<ret, all_copied, idx, pc>>

\* mutant: only MATCH returns early, BAD_FIXUP goes on to the live source
falls_through_unless_match(process_result) ==
    process_result # MATCH

\* process_file: after a restored copy was processed, is the live source
\* still to be tried (neither of the two early returns was taken)
falls_through_to_source(process_result) ==
    process_result # MATCH /\ process_result # BAD_FIXUP

\* process_file, pinned and not kang: backup_source.copy_file_to_path
restore_from_backup ==
    /\ pc = "files" /\ fpc = "begin"
    /\ ~kang /\ file[idx].hash # None
    /\ restore_tried' = restore_tried \cup {idx}
    /\ IF idx \in DOMAIN backup
         THEN /\ vendor' = Put(vendor, idx, backup[idx])
              /\ log' = [log EXCEPT ![idx] = Append(@, "restore")]
              /\ Continue("restored")
         ELSE /\ UNCHANGED <<vendor, log>>
              /\ Continue("source")
    /\ UNCHANGED <<kang, no_cleanup, section, blob_fixups, file, backup,
                   prev_vendor, src_tried, src_copy, res_restored, res_found,
                   warned>>
    /\ UNCHANGED not_recon_vars

\* process_file: process_pinned_file(file, file_path, True) and the returns
process_restored_file ==
    /\ pc = "files" /\ fpc = "restored"
    /\ \E post \in Contents :
         LET r == process_pinned_file(idx, vendor[idx], post)
         IN  /\ res_restored' = [res_restored EXCEPT ![idx] = r.result]
             /\ vendor' = IF r.fixed THEN Put(vendor, idx, post) ELSE vendor
             /\ log' = IF r.fixed
                         THEN [log EXCEPT ![idx] = Append(@, "fixup")]
                         ELSE log
             /\ IF falls_through_to_source(r.result)
                  THEN Continue("source")
                  ELSE Return(r.result = MATCH)
    /\ UNCHANGED <<kang, no_cleanup, section, blob_fixups, file, backup,
                   prev_vendor, restore_tried, src_tried, src_copy, res_found,
                   warned>>
    /\ UNCHANGED not_recon_vars

\* process_file: source.copy_file_to_path and the `if not copied` return.
\* The live source is external and read at most once per file: what it
\* holds for the file is drawn when it is read.
copy_from_source ==
    /\ pc = "files"
    /\ \/ fpc = "source"
       \/ fpc = "begin" /\ (kang \/ file[idx].hash = None)
    /\ src_tried' = src_tried \cup {idx}
    /\ \E found \in BOOLEAN, c \in Contents :
         IF found
           THEN /\ vendor' = Put(vendor, idx, c)
                /\ src_copy' = Put(src_copy, idx, c)
                /\ log' = [log EXCEPT ![idx] = Append(@, "source")]
                /\ Continue("copied")
           ELSE /\ UNCHANGED <<vendor, src_copy, log>>
                /\ Return(FALSE)
    /\ UNCHANGED <<kang, no_cleanup, section, blob_fixups, file, backup,
                   prev_vendor, restore_tried, res_restored, res_found,
                   warned>>
    /\ UNCHANGED not_recon_vars

\* mutant: the post-fixup hash is recorded even when no fixup ran
kanged_fixup_hash_always(should_fixup, post) ==
    Hash(post)

\* process_kanged_file: the fixup hash recorded on the entity
kanged_fixup_hash(should_fixup, post) ==
    IF should_fixup THEN Hash(post) ELSE None

\* mutant: the post-fixup hash is recorded, the pre-fixup hash is not
process_kanged_file_unpinned ==
    /\ pc = "files" /\ fpc = "copied"
    /\ kang
    /\ \E post \in Contents :
         LET should_fixup == should_fixup_file(idx)
             pre_fixup_hash == Hash(vendor[idx])
             post_fixup_hash == kanged_fixup_hash(should_fixup, post)
         IN  /\ vendor' = IF should_fixup THEN Put(vendor, idx, post)
                          ELSE vendor
             /\ log' = IF should_fixup
                         THEN [log EXCEPT ![idx] = Append(@, "fixup")]
                         ELSE log
             /\ file' = [file EXCEPT ![idx].hash = None,
                                     ![idx].fixup_hash = post_fixup_hash]
             /\ warned' = [warned EXCEPT
                             ![idx] = (pre_fixup_hash = post_fixup_hash)]
    /\ Return(TRUE)
    /\ UNCHANGED <<kang, no_cleanup, section, blob_fixups, backup,
                   prev_vendor, restore_tried, src_tried, src_copy,
                   res_restored, res_found>>
    /\ UNCHANGED not_recon_vars

\* process_file: `if kang: self.process_kanged_file(file, file_path)`
process_kanged_file ==
    /\ pc = "files" /\ fpc = "copied"
    /\ kang
    /\ \E post \in Contents :
         LET should_fixup == should_fixup_file(idx)
             pre_fixup_hash == Hash(vendor[idx])
             post_fixup_hash == kanged_fixup_hash(should_fixup, post)
         IN  /\ vendor' = IF should_fixup THEN Put(vendor, idx, post)
                          ELSE vendor
             /\ log' = IF should_fixup
                         THEN [log EXCEPT ![idx] = Append(@, "fixup")]
                         ELSE log
             /\ file' = [file EXCEPT ![idx].hash = pre_fixup_hash,
                                     ![idx].fixup_hash = post_fixup_hash]
             /\ warned' = [warned EXCEPT
                             ![idx] = (pre_fixup_hash = post_fixup_hash)]
    /\ Return(TRUE)
    /\ UNCHANGED <<kang, no_cleanup, section, blob_fixups, backup,
                   prev_vendor, restore_tried, src_tried, src_copy,
                   res_restored, res_found>>
    /\ UNCHANGED not_recon_vars

\* process_file: `elif file.hash is not None: self.process_pinned_file(...)`
process_found_file ==
    /\ pc = "files" /\ fpc = "copied"
    /\ ~kang /\ file[idx].hash # None
    /\ \E post \in Contents :
         LET r == process_pinned_file(idx, vendor[idx], post)
         IN  /\ res_found' = [res_found EXCEPT ![idx] = r.result]
             /\ vendor' = IF r.fixed THEN Put(vendor, idx, post) ELSE vendor
             /\ log' = IF r.fixed
                         THEN [log EXCEPT ![idx] = Append(@, "fixup")]
                         ELSE log
    /\ Return(TRUE)
    /\ UNCHANGED <<kang, no_cleanup, section, blob_fixups, file, backup,
                   prev_vendor, restore_tried, src_tried, src_copy,
                   res_restored, warned>>
    /\ UNCHANGED not_recon_vars

\* process_file: `else: self.process_simple_file(file, file_path)`
process_simple_file ==
    /\ pc = "files" /\ fpc = "copied"
    /\ ~kang /\ file[idx].hash = None
    /\ \E post \in Contents :
         LET should_fixup == should_fixup_file(idx)
         IN  /\ vendor' = IF should_fixup THEN Put(vendor, idx, post)
                          ELSE vendor
             /\ log' = IF should_fixup
                         THEN [log EXCEPT ![idx] = Append(@, "fixup")]
                         ELSE log
    /\ Return(TRUE)
    /\ UNCHANGED <<kang, no_cleanup, section, blob_fixups, file, backup,
                   prev_vendor, restore_tried, src_tried, src_copy,
                   res_restored, res_found, warned>>
    /\ UNCHANGED not_recon_vars

\* the fixups of a file that run an external tool with run_cmd: fix_soname
\* runs patchelf, and so may the steps of a blob fixup; fix_xml runs none
runs_tool(f) ==
    \/ "FIX_SONAME" \in file[f].args
    \/ f \in blob_fixups

\* fixup_module_file, called by process_pinned_file, process_kanged_file or
\* process_simple_file, when a tool exits non-zero: run_cmd raises
\* ValueError, and neither blob_fixup.run nor fixup_module_file nor
\* process_file nor process_proprietary_files nor process catches it.  The
\* file is left as the steps before the failure had made it.
fixup_module_file_raises ==
    /\ pc = "files"
    /\ fpc \in {"restored", "copied"}
    /\ runs_tool(idx)
    /\ \E post \in Contents :
         /\ IF ~kang /\ file[idx].hash # None
              THEN process_pinned_file(idx, vendor[idx], post).fixed
              ELSE should_fixup_file(idx)
         /\ vendor' = Put(vendor, idx, post)
    /\ log' = [log EXCEPT ![idx] = Append(@, "fixup")]
    /\ pc' = "raised"
    /\ UNCHANGED <<kang, no_cleanup, section, blob_fixups, file, backup, idx,
                   fpc, all_copied, prev_vendor, restore_tried, src_tried,
                   src_copy, res_restored, res_found, ret, warned>>
    /\ UNCHANGED not_recon_vars

(***************************************************************************)
(* File.__init__ and File.__str__ (file.py).  A line is a sequence of      *)
(* symbols: the separators, '=', ',', '-', ' ', the characters of paths,   *)
(* values and hashes, and one symbol for each argument name.               *)
(***************************************************************************)
SEPARATORS == {";", ":", "|"}

\* FILE_ARGS_TYPE_MAP, for the argument names of the model
FILE_ARGS_TYPE_MAP ==
    ("AB" :> "True") @@ ("MODULE" :> "str") @@ ("OVERRIDES" :> "list")

\* Optional[str] None, among strings that are sequences of symbols
NoneStr == <<None>>

RECURSIVE lstrip(_)
lstrip(s) == IF s # <<>> /\ s[1] = " " THEN lstrip(Tail(s)) ELSE s

RECURSIVE rstrip(_)
rstrip(s) ==
    IF s # <<>> /\ s[Len(s)] = " "
      THEN rstrip(SubSeq(s, 1, Len(s) - 1)) ELSE s

strip(s) == rstrip(lstrip(s))

\* the end of the longest run of non-separators that starts at i (i - 1 if
\* there is none): the `[^;:|]+` of both regular expressions
RECURSIVE run_end(_, _)
run_end(s, i) ==
    IF i <= Len(s) /\ s[i] \notin SEPARATORS THEN run_end(s, i + 1) ELSE i - 1

\* SRC_REGEX.findall(line)
SRC_REGEX_findall(s) ==
    LET e == run_end(s, 1)
    IN  IF e = 0 THEN <<>> ELSE <<SubSeq(s, 1, e)>>

\* EXTRA_REGEX.findall(line), scanning from position i
RECURSIVE EXTRA_REGEX_findall(_, _)
EXTRA_REGEX_findall(s, i) ==
    IF i > Len(s) THEN <<>>
    ELSE LET e == run_end(s, i + 1)
         IN  IF s[i] \in SEPARATORS /\ e > i
               THEN <<[prefix |-> s[i], extra |-> SubSeq(s, i + 1, e)]>>
                        \o EXTRA_REGEX_findall(s, e + 1)
               ELSE EXTRA_REGEX_findall(s, i + 1)

RECURSIVE index_of(_, _, _)
index_of(s, c, i) ==
    IF i > Len(s) THEN 0
    ELSE IF s[i] = c THEN i ELSE index_of(s, c, i + 1)

\* str.split(c)
RECURSIVE split(_, _)
split(s, c) ==
    LET i == index_of(s, c, 1)
    IN  IF i = 0 THEN <<s>>
        ELSE <<SubSeq(s, 1, i - 1)>> \o split(SubSeq(s, i + 1, Len(s)), c)

\* c.join(l)
RECURSIVE join(_, _)
join(l, c) ==
    IF l = <<>> THEN <<>>
    ELSE IF Len(l) = 1 THEN l[1]
    ELSE l[1] \o <<c>> \o join(Tail(l), c)

\* position of key k in the args dict (0 if absent)
RECURSIVE arg_index(_, _, _)
arg_index(args, k, i) ==
    IF i > Len(args) THEN 0
    ELSE IF args[i].k = k THEN i ELSE arg_index(args, k, i + 1)

\* File.set_arg(k, v): v is True (has_v false) or the string v.  A value is
\* kept as kind "True" (val empty), "str" (val one string) or "list".
set_arg(f, k, has_v, v) ==
    IF Len(k) # 1 \/ k[1] \notin DOMAIN FILE_ARGS_TYPE_MAP
      THEN [f EXCEPT !.error = "KeyError"]
    ELSE
      LET name == k[1]
          k_type == FILE_ARGS_TYPE_MAP[name]
          at == arg_index(f.args, name, 1)
          store(val) ==
              IF at = 0 THEN Append(f.args, [k |-> name, kind |-> val.kind,
                                             val |-> val.val])
              ELSE [f.args EXCEPT ![at] = [k |-> name, kind |-> val.kind,
                                           val |-> val.val]]
          old == IF at = 0 THEN <<>> ELSE f.args[at].val
      IN  IF \/ k_type = "True" /\ has_v
             \/ k_type = "str" /\ has_v /\ v = <<>>
             \/ k_type = "list" /\ has_v /\ v = <<>>
            THEN [f EXCEPT !.error = "ValueError"]
          ELSE IF k_type = "True"
            THEN [f EXCEPT !.args = store([kind |-> "True", val |-> <<>>])]
          ELSE IF k_type = "str"
            THEN [f EXCEPT !.args =
                    store(IF has_v THEN [kind |-> "str", val |-> <<v>>]
                          ELSE [kind |-> "True", val |-> <<>>])]
          ELSE IF ~has_v
            THEN [f EXCEPT !.error = "AssertionError"]
          ELSE [f EXCEPT !.args =
                    store([kind |-> "list", val |-> old \o split(v, ",")])]

\* File.set_dst
set_dst(f, dst) ==
    IF dst = f.src
      THEN [f EXCEPT !.dst = f.src, !.has_dst = FALSE]
      ELSE [f EXCEPT !.dst = dst, !.has_dst = TRUE]

\* File.__parse_extras: the loop over the extras; hashes collects '|' extras
RECURSIVE parse_extras_loop(_, _, _)
parse_extras_loop(f, extras, hashes) ==
    IF f.error # None THEN f
    ELSE IF extras = <<>> THEN
        IF Len(hashes) > 2 THEN [f EXCEPT !.error = "ValueError"]
        ELSE [f EXCEPT
                !.hash = IF Len(hashes) >= 1 THEN hashes[1] ELSE NoneStr,
                !.fixup_hash = IF Len(hashes) = 2 THEN hashes[2] ELSE NoneStr]
    ELSE
        LET prefix == extras[1].prefix
            extra == extras[1].extra
            rest == Tail(extras)
            eq == index_of(extra, "=", 1)
        IN  IF prefix = ":"
              THEN parse_extras_loop(set_dst(f, extra), rest, hashes)
            ELSE IF prefix = ";"
              THEN parse_extras_loop(
                     IF eq = 0 THEN set_arg(f, extra, FALSE, <<>>)
                     ELSE set_arg(f, SubSeq(extra, 1, eq - 1), TRUE,
                                  SubSeq(extra, eq + 1, Len(extra))),
                     rest, hashes)
            ELSE parse_extras_loop(f, rest, Append(hashes, extra))

NoFile == [is_package |-> FALSE, src |-> <<>>, dst |-> <<>>,
           has_dst |-> FALSE, args |-> <<>>, hash |-> NoneStr,
           fixup_hash |-> NoneStr, error |-> None]

\* File.__init__(line): the File, or the error raised in field error
file_init(l) ==
    LET stripped == strip(l)
        is_package == stripped # <<>> /\ stripped[1] = "-"
        text == IF is_package THEN Tail(stripped) ELSE stripped
        src_regex_result == SRC_REGEX_findall(text)
    IN  IF stripped = <<>> THEN [NoFile EXCEPT !.error = "IndexError"]
        ELSE IF src_regex_result = <<>>
          THEN [NoFile EXCEPT !.is_package = is_package,
                              !.error = "ValueError"]
        ELSE parse_extras_loop(
               [NoFile EXCEPT !.is_package = is_package,
                              !.src = src_regex_result[1],
                              !.dst = src_regex_result[1]],
               EXTRA_REGEX_findall(text, 1), <<>>)

\* f'{k}' for a member k of FileArgs(str, Enum): Enum.__format__ is
\* Enum.__str__ (Python 3.11 and later, which typing.Self in module.py and
\* fixups_blob.py requires), the class name and the member name
format_FileArgs(k) == "FileArgs." \o k

\* File.__str__: the loop over self.args.items()
RECURSIVE str_args(_)
str_args(args) ==
    IF args = <<>> THEN <<>>
    ELSE LET a == args[1]
         IN  <<";", format_FileArgs(a.k)>>
               \o (IF a.kind = "True" THEN <<>>
                   ELSE IF a.kind = "str" THEN <<"=">> \o a.val[1]
                   ELSE <<"=">> \o join(a.val, ","))
               \o str_args(Tail(args))

\* File.__str__
file_str(f) ==
    (IF f.is_package THEN <<"-">> ELSE <<>>)
      \o f.src
      \o (IF f.has_dst THEN <<":">> \o f.dst ELSE <<>>)
      \o str_args(f.args)
      \o (IF f.hash # NoneStr THEN <<"|">> \o f.hash ELSE <<>>)
      \o (IF f.fixup_hash # NoneStr THEN <<"|">> \o f.fixup_hash ELSE <<>>)

\* sequences over S of length at most n
SeqsUpTo(S, n) == UNION {[1..m -> S] : m \in 0..n}

RECURSIVE concat(_)
concat(ss) == IF ss = <<>> THEN <<>> ELSE ss[1] \o concat(Tail(ss))

SrcTexts == {<<>>, <<"a">>}
DstClauses == {<<>>, <<":">>, <<":", "a">>, <<":", "b">>}
ArgClauses ==
    {<<";", "AB">>, <<";", "AB", "=", "a">>,
     <<";", "MODULE", "=", "a">>, <<";", "MODULE", "=", "b">>,
     <<";", "MODULE">>, <<";", "MODULE", "=">>,
     <<";", "OVERRIDES", "=", "a">>, <<";", "OVERRIDES", "=", "a", ",", "b">>,
     <<";", "OVERRIDES">>, <<";", "X">>}
HashClauses == {<<"|">>, <<"|", "a">>, <<"|", "b">>}

\* the lines of the model, clauses in the order of the grammar:
\* ["-"] source (":" destination)? (";" arg)* ("|" hash)*, then white space
Lines ==
    {concat(<<dash, src, dst, concat(args), concat(hashes), ws>>) :
        dash \in {<<>>, <<"-">>}, src \in SrcTexts, dst \in DstClauses,
        args \in SeqsUpTo(ArgClauses, MaxArgs),
        hashes \in SeqsUpTo(HashClauses, MaxHashes),
        ws \in {<<>>, <<" ">>}}

IdleFile ==
    /\ line = <<>>
    /\ parsed = NoFile
    /\ rendered = <<>>
    /\ ppc = "idle"

InitFile ==
    /\ line \in Lines
    /\ parsed = NoFile
    /\ rendered = <<>>
    /\ ppc = "line"

\* file = File(line)
FileInit ==
    /\ ppc = "line"
    /\ parsed' = file_init(line)
    /\ ppc' = IF parsed'.error = None THEN "parsed" ELSE "raised"
    /\ UNCHANGED <<line, rendered>>
    /\ UNCHANGED not_file_vars

\* str(file)
FileStr ==
    /\ ppc = "parsed"
    /\ rendered' = file_str(parsed)
    /\ ppc' = "rendered"
    /\ UNCHANGED <<line, parsed>>
    /\ UNCHANGED not_file_vars

NextFile ==
    \/ FileInit
    \/ FileStr

(***************************************************************************)
(* blob_fixup (fixups_blob.py): steps are attached with call(), run()     *)
(* hands every step the same tmp_dir.                                     *)
(***************************************************************************)

\* blob_fixup.__init__ and no run() in progress
IdleFixup ==
    /\ functions = <<>>
    /\ create_tmp_dir = FALSE
    /\ bpc = "build"
    /\ step = 1
    /\ tmp_dir = 0
    /\ tmp_dirs = {}
    /\ ntmp = 0
    /\ made = 0
    /\ received = <<>>
    /\ nruns = 0
    /\ names = <<>>
    /\ invoked = <<>>

InitFixup == IdleFixup

\* call(fn, need_tmp_dir): appends the step, and sets __create_tmp_dir if
\* the step needs a directory
call(need_tmp_dir) ==
    /\ bpc # "running"
    /\ Len(functions) < MaxSteps
    /\ functions' = Append(functions, need_tmp_dir)
    /\ names' = Append(names, "fn")
    /\ create_tmp_dir' = IF need_tmp_dir THEN TRUE ELSE create_tmp_dir
    /\ UNCHANGED <<bpc, step, tmp_dir, tmp_dirs, ntmp, made, received, nruns,
                   invoked>>
    /\ UNCHANGED not_fixup_vars

\* apktool_patch(patches_path): apktool_unpack, patch_dir, apktool_pack and
\* stripzip, each a call() with need_tmp_dir True
apktool_patch ==
    /\ bpc # "running"
    /\ Len(functions) + 4 <= MaxSteps
    /\ functions' = functions \o <<TRUE, TRUE, TRUE, TRUE>>
    /\ names' = names \o <<"apktool_unpack", "patch_dir", "apktool_pack",
                            "stripzip">>
    /\ create_tmp_dir' = TRUE
    /\ UNCHANGED <<bpc, step, tmp_dir, tmp_dirs, ntmp, made, received, nruns,
                   invoked>>
    /\ UNCHANGED not_fixup_vars

\* run(): `with tempfile.TemporaryDirectory() as tmp_dir: run(tmp_dir)` if
\* __create_tmp_dir, run() with tmp_dir None otherwise
run_enter ==
    /\ bpc # "running"
    /\ nruns < MaxRuns
    /\ nruns' = nruns + 1
    /\ IF create_tmp_dir
          THEN /\ ntmp' = ntmp + 1
               /\ tmp_dirs' = tmp_dirs \cup {ntmp + 1}
               /\ tmp_dir' = ntmp + 1
               /\ made' = 1
          ELSE /\ tmp_dir' = 0
               /\ made' = 0
               /\ UNCHANGED <<ntmp, tmp_dirs>>
    /\ bpc' = "running"
    /\ step' = 1
    /\ received' = <<>>
    /\ invoked' = <<>>
    /\ UNCHANGED <<functions, create_tmp_dir, names>>
    /\ UNCHANGED not_fixup_vars

\* mutant: the loop does not move on, the step is invoked again
function_returns_repeats ==
    /\ bpc = "running"
    /\ step <= Len(functions)
    /\ Len(invoked) < MaxSteps
    /\ received' = Append(received, tmp_dir)
    /\ invoked' = Append(invoked, step)
    /\ step' = IF Len(invoked) = 0 THEN step ELSE step + 1
    /\ UNCHANGED <<functions, create_tmp_dir, bpc, tmp_dir, tmp_dirs, ntmp,
                   made, nruns, names>>
    /\ UNCHANGED not_fixup_vars

\* function(ctx, file, file_path, tmp_dir=tmp_dir) returns
function_returns ==
    /\ bpc = "running"
    /\ step <= Len(functions)
    /\ received' = Append(received, tmp_dir)
    /\ invoked' = Append(invoked, step)
    /\ step' = step + 1
    /\ UNCHANGED <<functions, create_tmp_dir, bpc, tmp_dir, tmp_dirs, ntmp,
                   made, nruns, names>>
    /\ UNCHANGED not_fixup_vars

\* mutant: the directory outlives an exception
function_raises_leaks ==
    /\ bpc = "running"
    /\ step <= Len(functions)
    /\ received' = Append(received, tmp_dir)
    /\ invoked' = Append(invoked, step)
    /\ bpc' = "raised"
    /\ UNCHANGED <<functions, create_tmp_dir, step, tmp_dir, tmp_dirs, ntmp,
                   made, nruns, names>>
    /\ UNCHANGED not_fixup_vars

\* the step raises: the exception leaves the loop and the with block, whose
\* exit removes the directory
function_raises ==
    /\ bpc = "running"
    /\ step <= Len(functions)
    /\ received' = Append(received, tmp_dir)
    /\ invoked' = Append(invoked, step)
    /\ tmp_dirs' = tmp_dirs \ {tmp_dir}
    /\ bpc' = "raised"
    /\ UNCHANGED <<functions, create_tmp_dir, step, tmp_dir, ntmp, made,
                   nruns, names>>
    /\ UNCHANGED not_fixup_vars

\* the loop is over: the with block exits, run() returns True
run_returns ==
    /\ bpc = "running"
    /\ step > Len(functions)
    /\ tmp_dirs' = tmp_dirs \ {tmp_dir}
    /\ bpc' = "returned"
    /\ UNCHANGED <<functions, create_tmp_dir, step, tmp_dir, ntmp, made,
                   received, nruns, names, invoked>>
    /\ UNCHANGED not_fixup_vars

NextFixup ==
    \/ \E need_tmp_dir \in BOOLEAN : call(need_tmp_dir)
    \/ apktool_patch
    \/ run_enter
    \/ function_returns
    \/ function_raises
    \/ run_returns

(***************************************************************************)
(* The content fixups of blob_fixup (fixups_blob.py).  A text file is the  *)
(* sequence of its characters, a binary file the sequence of its bytes.    *)
(***************************************************************************)
IdleBlob ==
    /\ blob = <<>>
    /\ blob_hist = <<>>
    /\ blob_fn = [kind |-> None]

\* the characters of the text files of the model
Chars == {"a", "b", "\n"}

\* the texts add_line_if_missing is given
Texts == {<<"a">>, <<"b">>, <<"a", "b">>}

\* `for line in f` of a file opened with newline='': the lines of s, each
\* with its terminator; the rest after the last terminator is a line when
\* it is not empty
RECURSIVE readlines(_)
readlines(s) ==
    IF s = <<>> THEN <<>>
    ELSE IF \E i \in 1..Len(s) : s[i] = "\n"
      THEN LET i == CHOOSE i \in 1..Len(s) :
                        /\ s[i] = "\n"
                        /\ \A j \in 1..(i - 1) : s[j] # "\n"
           IN  <<SubSeq(s, 1, i)>> \o readlines(SubSeq(s, i + 1, Len(s)))
      ELSE <<s>>

\* line.rstrip('\n')
RECURSIVE rstrip_newline(_)
rstrip_newline(l) ==
    IF l # <<>> /\ l[Len(l)] = "\n"
      THEN rstrip_newline(SubSeq(l, 1, Len(l) - 1))
      ELSE l

\* add_line_if_missing_impl: the content of the file after the call
add_line_if_missing_impl(text, s) ==
    IF \E i \in 1..Len(readlines(s)) : rstrip_newline(readlines(s)[i]) = text
      THEN s
      ELSE s \o text \o <<"\n">>

InitLine ==
    /\ blob \in SeqsUpTo(Chars, MaxFileLen)
    /\ blob_hist = <<>>
    /\ blob_fn \in {[kind |-> "add_line_if_missing", text |-> t] : t \in Texts}

\* one run of a blob_fixup whose only step is add_line_if_missing(text)
add_line_if_missing ==
    /\ blob_fn.kind = "add_line_if_missing"
    /\ Len(blob_hist) < MaxApplies
    /\ blob' = add_line_if_missing_impl(blob_fn.text, blob)
    /\ blob_hist' = Append(blob_hist, blob)
    /\ UNCHANGED blob_fn
    /\ UNCHANGED not_blob_vars

NextLine == add_line_if_missing

\* the bytes of the binary files of the model: 0x0a, 0x2e ('.') and 0x41,
\* and 0x42 for what a replacement writes
Bytes == {10, 46, 65}

\* the tokens of a pattern string, and those of a replacement string
PatternTokens == {"??", "0a", "2e", "41"}
ReplacementTokens == {"42"}

\* bytes.fromhex of one token of two hex digits
fromhex(byte_str) ==
    CASE byte_str = "0a" -> 10
      [] byte_str = "2e" -> 46
      [] byte_str = "41" -> 65
      [] byte_str = "42" -> 66

\* the pattern sig_replace builds: b'.' for '??', the byte itself otherwise
sig_pattern(tokens) ==
    [i \in 1..Len(tokens) |->
        IF tokens[i] = "??" THEN 46 ELSE fromhex(tokens[i])]

\* re: what one byte of the pattern matches, for the bytes of the model
\* (b'.' is any byte but a newline, the other bytes are literals)
re_byte_matches(p, d) == IF p = 46 THEN d # 10 ELSE d = p

re_match_at(pattern, data, i) ==
    /\ i + Len(pattern) - 1 <= Len(data)
    /\ \A k \in 1..Len(pattern) : re_byte_matches(pattern[k], data[i + k - 1])

\* re.search(pattern, data): match.start(0) + 1 of the leftmost match, 0 for
\* None
re_search(pattern, data) ==
    IF \E i \in 1..(Len(data) + 1) : re_match_at(pattern, data, i)
      THEN CHOOSE i \in 1..(Len(data) + 1) :
                /\ re_match_at(pattern, data, i)
                /\ \A j \in 1..(i - 1) : ~re_match_at(pattern, data, j)
      ELSE 0

\* f.seek(pos - 1); f.write(replacement) on a file opened 'rb+'
seek_write(data, pos, replacement) ==
    LET end == pos + Len(replacement) - 1
        n == IF end > Len(data) THEN end ELSE Len(data)
    IN  [i \in 1..n |->
            IF i \in pos..end THEN replacement[i - pos + 1] ELSE data[i]]

\* sig_replace_impl: the content of the file after the call
sig_replace_impl(pattern, replacement, data) ==
    IF re_search(pattern, data) # 0
      THEN seek_write(data, re_search(pattern, data), replacement)
      ELSE data

InitSig ==
    /\ blob \in SeqsUpTo(Bytes, MaxFileLen)
    /\ blob_hist = <<>>
    /\ blob_fn \in {[kind |-> "sig_replace", pattern_str |-> p,
                      replacement_str |-> r] :
                        p \in SeqsUpTo(PatternTokens, MaxTokens) \ {<<>>},
                        r \in SeqsUpTo(ReplacementTokens, MaxTokens) \ {<<>>}}

\* one run of a blob_fixup whose only step is
\* sig_replace(pattern_str, replacement_str)
sig_replace ==
    /\ blob_fn.kind = "sig_replace"
    /\ Len(blob_hist) < MaxApplies
    /\ blob' = sig_replace_impl(
                    sig_pattern(blob_fn.pattern_str),
                    [i \in 1..Len(blob_fn.replacement_str) |->
                        fromhex(blob_fn.replacement_str[i])],
                    blob)
    /\ blob_hist' = Append(blob_hist, blob)
    /\ UNCHANGED blob_fn
    /\ UNCHANGED not_blob_vars

NextSig == sig_replace

(***************************************************************************)
(* FileTree and CommonFileTree (file.py).  A nested dict is the sequence   *)
(* of its entries at every depth, in insertion order: an entry is          *)
(* [path, kind, files], its kind "dict" (a sub-dict, whose entries are the *)
(* entries with longer paths), "list" (a list of files) or None.  A File   *)
(* is [id, parts]: the object and the parts of its destination.            *)
(***************************************************************************)
NoEntity == [id |-> 0, parts |-> <<>>]

\* FileTree.__init__(None, parts, common)
EmptyTree(common, parts) == [common |-> common, parts |-> parts, tree |-> <<>>]

\* position of the entry of path p (0 if there is none)
RECURSIVE lookup(_, _, _)
lookup(t, p, i) ==
    IF i > Len(t) THEN 0
    ELSE IF t[i].path = p THEN i ELSE lookup(t, p, i + 1)

IsUnder(p, q) == Len(q) > Len(p) /\ SubSeq(q, 1, Len(p)) = p

\* subtree.items() of the dict at path p
items(t, p) ==
    SelectSeq(t, LAMBDA e : Len(e.path) = Len(p) + 1 /\ IsUnder(p, e.path))

\* add_with_parts: the loop over dir_parts, from the i-th part
RECURSIVE add_dir_parts(_, _, _)
add_dir_parts(t, parts, i) ==
    IF i >= Len(parts) THEN [tree |-> t, error |-> None]
    ELSE LET p == SubSeq(parts, 1, i)
             t1 == IF lookup(t, p, 1) = 0
                     THEN Append(t, [path |-> p, kind |-> "dict",
                                     files |-> <<>>])
                     ELSE t
             new_subtree == t1[lookup(t1, p, 1)]
         IN  IF new_subtree.kind # "dict"
               THEN [tree |-> t1, error |-> "AssertionError"]
               ELSE add_dir_parts(t1, parts, i + 1)

\* mutant: the file is appended first and a list longer than 1 is the error
append_file_then_check(common, subtree_value, f) ==
    [files |-> Append(subtree_value, f),
     error |-> IF ~common /\ Len(subtree_value) + 1 > 1
                 THEN "ValueError" ELSE None]

\* add_with_parts: the duplicate check and the append
append_file(common, subtree_value, f) ==
    IF ~common /\ Len(subtree_value) > 0
      THEN [files |-> subtree_value, error |-> "ValueError"]
      ELSE [files |-> Append(subtree_value, f), error |-> None]

\* FileTree.add_with_parts(file, parts) on the dict t
add_with_parts(t, common, f, parts) ==
    IF parts = <<>> THEN [tree |-> t, error |-> "IndexError"]
    ELSE
      LET dirs == add_dir_parts(t, parts, 1)
          t1 == dirs.tree
          t2 == IF lookup(t1, parts, 1) = 0
                  THEN Append(t1, [path |-> parts, kind |-> "list",
                                   files |-> <<>>])
                  ELSE t1
          i == lookup(t2, parts, 1)
          appended == append_file(common, t2[i].files, f)
      IN  IF dirs.error # None THEN dirs
          ELSE IF t2[i].kind # "list"
            THEN [tree |-> t2, error |-> "AssertionError"]
          ELSE [tree |-> [t2 EXCEPT ![i].files = appended.files],
                error |-> appended.error]

\* FileTree._files_list(subtree) for the dict at path p: its lists of files
RECURSIVE files_list(_, _)
RECURSIVE files_list_values(_, _)
files_list_values(t, vs) ==
    IF vs = <<>> THEN <<>>
    ELSE LET v == vs[1]
         IN  (IF v.kind = None THEN <<>>
              ELSE IF v.kind = "dict" THEN files_list(t, v.path)
              ELSE <<v.files>>)
               \o files_list_values(t, Tail(vs))

files_list(t, p) == files_list_values(t, items(t, p))

\* the files in the lists that iterating the tree goes through
\* (FileTree.__iter__, CommonFileTree.__iter__)
files_of(ft) ==
    LET ls == files_list(ft.tree, <<>>)
    IN  UNION {{ls[i][j] : j \in 1..Len(ls[i])} : i \in 1..Len(ls)}

\* the dict at path p as a dict of its own
subdict(t, p) ==
    LET under == SelectSeq(t, LAMBDA e : IsUnder(p, e.path))
    IN  [i \in 1..Len(under) |->
            [under[i] EXCEPT !.path = SubSeq(@, Len(p) + 1, Len(@))]]

\* mutant: the matched subtree is returned and stays in the parent
set_none_keeps(t, p) == t

\* subtree[k] = None for the entry of path p
set_none(t, p) ==
    LET kept == SelectSeq(t, LAMBDA e : ~IsUnder(p, e.path))
    IN  [i \in 1..Len(kept) |->
            IF kept[i].path = p
              THEN [kept[i] EXCEPT !.kind = None, !.files = <<>>]
              ELSE kept[i]]

\* FileTree.__get_prefixed with non-empty parts, at the dict of depth i - 1:
\* the only key that passes `k != parts[0]` is the i-th part
RECURSIVE get_prefixed(_, _, _)
get_prefixed(t, parts, i) ==
    LET p == SubSeq(parts, 1, i)
        at == lookup(t, p, 1)
        NotFound == [tree |-> t, kind |-> None, sub |-> <<>>, files |-> <<>>]
    IN  IF at = 0 THEN NotFound
        ELSE IF i = Len(parts) /\ t[at].kind # None
          THEN [tree |-> set_none(t, p), kind |-> t[at].kind,
                sub |-> subdict(t, p), files |-> t[at].files]
        ELSE IF t[at].kind = "dict"
          THEN LET found == get_prefixed(t, parts, i + 1)
               IN  IF found.kind = None
                      \/ (found.sub = <<>> /\ found.files = <<>>)
                     THEN [NotFound EXCEPT !.tree = found.tree]
                     ELSE found
        ELSE NotFound

\* FileTree.filter_prefixed(parts): the tree it leaves, the tree it returns
filter_prefixed(ft, parts) ==
    LET tree == get_prefixed(ft.tree, parts, 1)
    IN  [parent |-> [ft EXCEPT !.tree = tree.tree],
         error |-> IF tree.kind = "list" THEN "AssertionError" ELSE None,
         file_tree |-> [common |-> FALSE, parts |-> parts,
                        tree |-> tree.sub]]

\* mutant: neither a[k] nor b[k] is set to None
clear_common_none(st, ia, ib) == st

\* mutant: only a[k] is set to None
clear_common_in_a(st, ia, ib) ==
    [st EXCEPT !.a[ia].kind = None, !.a[ia].files = <<>>]

\* __common_files: a[k] = None, b[k] = None
clear_common(st, ia, ib) ==
    [st EXCEPT !.a[ia].kind = None, !.a[ia].files = <<>>,
               !.b[ib].kind = None, !.b[ib].files = <<>>]

\* __common_files: the loop `for f in v_a + v_b`
RECURSIVE add_common(_, _, _)
add_common(st, parts, fs) ==
    IF fs = <<>> \/ st.error # None THEN st
    ELSE LET f == fs[1]
             remaining_parts == SubSeq(f.parts, Len(parts) + 1, Len(f.parts))
             added == add_with_parts(st.file_tree, TRUE, f, remaining_parts)
         IN  add_common([st EXCEPT !.file_tree = added.tree,
                                   !.error = added.error],
                        parts, Tail(fs))

\* CommonFileTree.__common_files: the loop over the keys ks of a dict of a
RECURSIVE common_files_loop(_, _, _)
common_files_loop(st, parts, ks) ==
    IF ks = <<>> \/ st.error # None THEN st
    ELSE
      LET k == ks[1].path
          ia == lookup(st.a, k, 1)
          ib == lookup(st.b, k, 1)
          v_a == st.a[ia]
          v_b == st.b[ib]
          done ==
              IF ib = 0 \/ v_b.kind = None THEN st
              ELSE IF v_a.kind = "dict" /\ v_b.kind = "dict"
                THEN common_files_loop(st, parts, items(st.a, k))
              ELSE IF v_a.kind = "list" /\ v_b.kind = "list"
                THEN add_common(clear_common(st, ia, ib), parts,
                                v_a.files \o v_b.files)
              ELSE [st EXCEPT !.error = "AssertionError"]
      IN  common_files_loop(done, parts, Tail(ks))

\* mutant: the keys of b are walked, and the files of b come first
common_files_b_first(a, b) ==
    LET st == [a |-> b.tree, b |-> a.tree, file_tree |-> <<>>,
               error |-> None]
        done == common_files_loop(st, b.parts, items(b.tree, <<>>))
    IN  IF Len(a.parts) # Len(b.parts)
          THEN [a |-> a.tree, b |-> b.tree, file_tree |-> <<>>,
                error |-> "AssertionError"]
          ELSE [done EXCEPT !.a = done.b, !.b = done.a]

\* CommonFileTree.common_files(a, b)
common_files(a, b) ==
    LET st == [a |-> a.tree, b |-> b.tree, file_tree |-> <<>>,
               error |-> None]
    IN  IF Len(a.parts) # Len(b.parts)
          THEN [st EXCEPT !.error = "AssertionError"]
          ELSE common_files_loop(st, a.parts, items(a.tree, <<>>))

\* the destinations of the model: a library of both word sizes, in lib,
\* lib64 and their rfsa sub-directories, and rfsa as a file
Dsts ==
    {<<"vendor", "lib", "libfoo.so">>, <<"vendor", "lib64", "libfoo.so">>,
     <<"vendor", "lib", "rfsa", "libfoo.so">>,
     <<"vendor", "lib64", "rfsa", "libfoo.so">>,
     <<"vendor", "lib64", "rfsa">>}

\* the prefixes write_product_packages filters for the libraries
Prefixes ==
    {<<"vendor", "lib", "rfsa">>, <<"vendor", "lib">>, <<"vendor", "lib64">>}

\* the destination of the files added straight to a CommonFileTree
CommonDsts == {<<"vendor", "lib", "libfoo.so">>}

NoOp == [op |-> None, target |-> None, error |-> None, f |-> NoEntity,
         held |-> <<>>, tree_kept |-> FALSE]

IdleTree ==
    /\ base_file_tree = EmptyTree(FALSE, <<>>)
    /\ lib32_tree = EmptyTree(FALSE, <<>>)
    /\ lib64_tree = EmptyTree(FALSE, <<>>)
    /\ lib_common_tree = EmptyTree(TRUE, <<>>)
    /\ nadds = 0
    /\ nfilters = 0
    /\ last = NoOp
    /\ dup_seen = {}
    /\ tpc = "idle"

InitTree ==
    /\ base_file_tree = EmptyTree(FALSE, <<>>)
    /\ lib32_tree = EmptyTree(FALSE, <<>>)
    /\ lib64_tree = EmptyTree(FALSE, <<>>)
    /\ lib_common_tree = EmptyTree(TRUE, <<>>)
    /\ nadds = 0
    /\ nfilters = 0
    /\ last = NoOp
    /\ dup_seen = {}
    /\ tpc = "open"

\* what is at path p of dict t, if it is a list of files
Leaf(t, p) ==
    LET at == lookup(t, p, 1)
    IN  IF at # 0 /\ t[at].kind = "list" THEN t[at].files ELSE <<>>

\* tree.add(File): a new File object, added to a FileTree (base_file_tree)
\* or to a CommonFileTree (lib_common_tree)
TreeAdd ==
    /\ tpc = "open"
    /\ nadds < MaxAdds
    /\ \E target \in {"FileTree", "CommonFileTree"} :
       \E parts \in IF target = "FileTree" THEN Dsts ELSE CommonDsts :
         LET f == [id |-> nadds + 1, parts |-> parts]
             ft == IF target = "FileTree" THEN base_file_tree
                   ELSE lib_common_tree
             added == add_with_parts(ft.tree, ft.common, f, f.parts)
         IN  /\ base_file_tree' =
                    IF target = "FileTree"
                      THEN [ft EXCEPT !.tree = added.tree]
                      ELSE base_file_tree
             /\ lib_common_tree' =
                    IF target = "CommonFileTree"
                      THEN [ft EXCEPT !.tree = added.tree]
                      ELSE lib_common_tree
             /\ last' = [op |-> "add", target |-> target,
                         error |-> added.error, f |-> f,
                         held |-> Leaf(ft.tree, parts),
                         tree_kept |-> (added.tree = ft.tree)]
             /\ dup_seen' = IF Leaf(ft.tree, parts) # <<>>
                              THEN dup_seen \cup {target} ELSE dup_seen
    /\ nadds' = nadds + 1
    /\ UNCHANGED <<lib32_tree, lib64_tree, nfilters, tpc>>
    /\ UNCHANGED not_tree_vars

\* lib32_tree or lib64_tree = base_file_tree.filter_prefixed(parts)
TreeFilter ==
    /\ tpc = "open"
    /\ nfilters < MaxFilters
    /\ \E parts \in Prefixes, into \in {"lib32_tree", "lib64_tree"} :
         LET filtered == filter_prefixed(base_file_tree, parts)
         IN  /\ base_file_tree' = filtered.parent
             /\ lib32_tree' =
                    IF into = "lib32_tree" /\ filtered.error = None
                      THEN filtered.file_tree ELSE lib32_tree
             /\ lib64_tree' =
                    IF into = "lib64_tree" /\ filtered.error = None
                      THEN filtered.file_tree ELSE lib64_tree
             /\ last' = [op |-> "filter", target |-> into,
                         error |-> filtered.error, f |-> NoEntity,
                         held |-> <<>>, tree_kept |-> FALSE]
    /\ nfilters' = nfilters + 1
    /\ UNCHANGED <<lib_common_tree, nadds, dup_seen, tpc>>
    /\ UNCHANGED not_tree_vars

\* lib_common_tree = CommonFileTree.common_files(lib32_tree, lib64_tree)
TreeCommon ==
    /\ tpc = "open"
    /\ LET st == common_files(lib32_tree, lib64_tree)
       IN  /\ lib32_tree' = [lib32_tree EXCEPT !.tree = st.a]
           /\ lib64_tree' = [lib64_tree EXCEPT !.tree = st.b]
           /\ lib_common_tree' =
                  IF st.error = None
                    THEN [common |-> TRUE, parts |-> lib32_tree.parts,
                          tree |-> st.file_tree]
                    ELSE lib_common_tree
           /\ last' = [op |-> "common", target |-> "lib_common_tree",
                       error |-> st.error, f |-> NoEntity,
                       held |-> <<>>, tree_kept |-> FALSE]
    /\ UNCHANGED <<base_file_tree, nadds, nfilters, dup_seen, tpc>>
    /\ UNCHANGED not_tree_vars

NextTree ==
    \/ TreeAdd
    \/ TreeFilter
    \/ TreeCommon

(***************************************************************************)
(* FileList (file.py) and write_product_packages (makefiles.py).          *)
(***************************************************************************)

ALL_PARTITIONS == <<"system", "vendor", "product", "system_ext", "odm">>
APEX_PARTITIONS == <<"system", "vendor", "system_ext">>
RFSA_PARTITIONS == <<"vendor", "odm">>

LIB_PARTS == <<"lib">>
LIB_RFSA_PARTS == <<"lib", "rfsa">>
LIB64_PARTS == <<"lib64">>
BIN_PARTS == <<"bin">>
MANIFEST_PARTS == <<"etc", "vintf", "manifest">>
DEFAULT_PACKAGES_EXT == {".apk", ".jar", ".apex"}

\* the destinations of the lines, in the order of Python's str comparison
\* ('/' sorts before '6')
ListDsts ==
    << [dst |-> "vendor/etc/a.conf", parts |-> <<"vendor", "etc", "a.conf">>,
        ext |-> ".conf"],
       [dst |-> "vendor/firmware/a.bin",
        parts |-> <<"vendor", "firmware", "a.bin">>, ext |-> ".bin"],
       [dst |-> "vendor/lib/liba.so",
        parts |-> <<"vendor", "lib", "liba.so">>, ext |-> ".so"],
       [dst |-> "vendor/lib/rfsa/a.so",
        parts |-> <<"vendor", "lib", "rfsa", "a.so">>, ext |-> ".so"],
       [dst |-> "vendor/lib64/liba.so",
        parts |-> <<"vendor", "lib64", "liba.so">>, ext |-> ".so"],
       [dst |-> "vendor/lib64/rfsa/a.so",
        parts |-> <<"vendor", "lib64", "rfsa", "a.so">>, ext |-> ".so"] >>

\* the position of a destination in the order of str
dst_rank(dst) == CHOOSE i \in 1..Len(ListDsts) : ListDsts[i].dst = dst

\* what a line gives a File besides its destination: '-', a pinned hash,
\* ;SYMLINK or ;MAKE_COPY_RULE
ListVariants ==
    {[is_package |-> FALSE, hash |-> None, args |-> {}],
     [is_package |-> TRUE, hash |-> None, args |-> {}],
     [is_package |-> FALSE, hash |-> "a", args |-> {"SYMLINK"}],
     [is_package |-> TRUE, hash |-> "a", args |-> {"MAKE_COPY_RULE"}]}

\* the File objects of the lines
ListFiles ==
    {[dst |-> ListDsts[i].dst, parts |-> ListDsts[i].parts,
      ext |-> ListDsts[i].ext, is_package |-> v.is_package,
      hash |-> v.hash, args |-> v.args] :
        i \in 1..Len(ListDsts), v \in ListVariants}

Sections == {"a", "b"}

\* File.contains_path_parts
contains_path_parts(f, path_parts) ==
    \E i \in 1..(Len(f.parts) - Len(path_parts) + 1) :
        SubSeq(f.parts, i, i + Len(path_parts) - 1) = path_parts

\* FileList.__is_file_package
is_file_package(f, elf) ==
    IF contains_path_parts(f, MANIFEST_PARTS) THEN TRUE
    ELSE IF f.ext \in DEFAULT_PACKAGES_EXT THEN TRUE
    ELSE IF ~elf THEN FALSE
    ELSE IF f.ext = ".so"
            /\ (contains_path_parts(f, LIB_PARTS)
                \/ contains_path_parts(f, LIB64_PARTS)) THEN TRUE
    ELSE contains_path_parts(f, BIN_PARTS)
            \/ contains_path_parts(f, LIB_RFSA_PARTS)

\* list.sort(key=dst), which is stable: x goes after the elements that do
\* not sort after it
RECURSIVE insert_sorted(_, _)
insert_sorted(fs, x) ==
    IF fs = <<>> THEN <<x>>
    ELSE IF dst_rank(fs[1].file.dst) <= dst_rank(x.file.dst)
      THEN <<fs[1]>> \o insert_sorted(Tail(fs), x)
      ELSE <<x>> \o fs

RECURSIVE sort_by_dst(_)
sort_by_dst(fs) ==
    IF fs = <<>> THEN <<>>
    ELSE insert_sorted(sort_by_dst(SubSeq(fs, 1, Len(fs) - 1)), fs[Len(fs)])

\* SimpleFileList.add: self.__files[file.dst] = file
simple_add(fl, f) == Put(fl, f.dst, f)

\* what SimpleFileList.add(f) overwrites in the list named n
overwritten(n, fl, f) ==
    IF f.dst \in DOMAIN fl /\ fl[f.dst] # f
      THEN {[list |-> n, file |-> fl[f.dst]]} ELSE {}

\* FileList.__init__ and no line read
IdleList ==
    /\ lines_in = <<>>
    /\ list_section = None
    /\ check_elf = FALSE
    /\ sorted_files = <<>>
    /\ lidx = 1
    /\ list_files = EmptyDir
    /\ list_pinned_files = EmptyDir
    /\ package_symlinks = EmptyDir
    /\ copy_files = EmptyDir
    /\ package_files = EmptyTree(FALSE, <<>>)
    /\ replaced = {}
    /\ packaged = {}
    /\ written = <<>>
    /\ lpc = "idle"

\* FileList(section, check_elf) and the lines given to add_from_lines
InitList ==
    /\ lines_in \in SeqsUpTo([section : Sections, file : ListFiles], MaxLines)
    /\ list_section \in {None, "a"}
    /\ check_elf \in BOOLEAN
    /\ sorted_files = <<>>
    /\ lidx = 1
    /\ list_files = EmptyDir
    /\ list_pinned_files = EmptyDir
    /\ package_symlinks = EmptyDir
    /\ copy_files = EmptyDir
    /\ package_files = EmptyTree(FALSE, <<>>)
    /\ replaced = {}
    /\ packaged = {}
    /\ written = <<>>
    /\ lpc = "lines"

\* add_from_lines up to `files.sort(key=lambda f_s: f_s[1].dst)`
add_from_lines_sort ==
    /\ lpc = "lines"
    /\ sorted_files' = sort_by_dst(lines_in)
    /\ lpc' = IF lines_in = <<>> THEN "built" ELSE "adding"
    /\ UNCHANGED <<lines_in, list_section, check_elf, lidx, list_files,
                   list_pinned_files, package_symlinks, copy_files,
                   package_files, replaced, packaged, written>>
    /\ UNCHANGED not_list_vars

\* one turn of `for section, file in files: self.__add_file(file, section)`
add_file ==
    /\ lpc = "adding"
    /\ LET f == sorted_files[lidx].file
           sec == sorted_files[lidx].section
           in_section == list_section = None \/ sec = list_section
           is_package == is_file_package(f, check_elf)
           to_tree == is_package \/ f.is_package
           added == add_with_parts(package_files.tree, FALSE, f, f.parts)
           raises == to_tree /\ added.error # None
           to_copy == ~is_package \/ "MAKE_COPY_RULE" \in f.args
       IN  /\ package_symlinks' =
                IF "SYMLINK" \in f.args THEN simple_add(package_symlinks, f)
                ELSE package_symlinks
           /\ list_files' =
                IF in_section THEN simple_add(list_files, f) ELSE list_files
           /\ list_pinned_files' =
                IF in_section /\ f.hash # None
                  THEN simple_add(list_pinned_files, f)
                  ELSE list_pinned_files
           /\ package_files' =
                IF to_tree THEN [package_files EXCEPT !.tree = added.tree]
                ELSE package_files
           /\ copy_files' =
                IF ~raises /\ to_copy THEN simple_add(copy_files, f)
                ELSE copy_files
           /\ replaced' = replaced
                \cup (IF "SYMLINK" \in f.args
                        THEN overwritten("package_symlinks",
                                         package_symlinks, f) ELSE {})
                \cup (IF in_section
                        THEN overwritten("files", list_files, f) ELSE {})
                \cup (IF in_section /\ f.hash # None
                        THEN overwritten("pinned_files",
                                         list_pinned_files, f) ELSE {})
                \cup (IF ~raises /\ to_copy
                        THEN overwritten("copy_files", copy_files, f)
                        ELSE {})
           /\ lpc' = IF raises THEN "raised"
                     ELSE IF lidx = Len(sorted_files) THEN "built"
                     ELSE "adding"
           /\ lidx' = IF raises THEN lidx ELSE lidx + 1
           /\ packaged' = IF raises THEN packaged
                          ELSE files_of(package_files')
    /\ UNCHANGED <<lines_in, list_section, check_elf, sorted_files, written>>
    /\ UNCHANGED not_list_vars

\* the files of a tree in the order of iteration
files_seq(ft) == concat(files_list(ft.tree, <<>>))

\* Body(v), with v evaluated once: a local variable of the Python code
bind(v, Body(_)) == CHOOSE r \in {Body(x) : x \in {v}} : TRUE

\* write_packages_group and write_common_packages_group: one package per
\* turn of `for file in file_tree`, recorded with the group that wrote it
w(st, group, ft) ==
    bind(files_seq(ft), LAMBDA fs :
        [st EXCEPT !.written =
            @ \o [i \in 1..Len(fs) |-> [group |-> group, file |-> fs[i]]]])

\* base_file_tree.filter_prefixed(parts) inside write_product_packages
filtered(st, parts) ==
    IF st.error # None THEN [st |-> st, file_tree |-> EmptyTree(FALSE, parts)]
    ELSE bind(filter_prefixed(st.base, parts), LAMBDA r :
            [st |-> [st EXCEPT !.base = r.parent, !.error = r.error],
             file_tree |-> r.file_tree])

\* wp(fn, partition, sub_dir); the group is named after sub_dir
wp(st, partition, sub_dir) ==
    bind(filtered(st, <<partition, sub_dir>>), LAMBDA r :
        IF r.st.error # None THEN r.st ELSE w(r.st, sub_dir, r.file_tree))

\* the rest of the body of the first loop, after the three filters
write_libs_groups(is_rfsa, rfsa, lib32, lib64) ==
    bind(common_files(lib32.file_tree, lib64.file_tree), LAMBDA common :
        IF common.error # None THEN [lib64.st EXCEPT !.error = common.error]
        ELSE
          bind(w(lib64.st, "common",
                 [common |-> TRUE, parts |-> lib32.file_tree.parts,
                  tree |-> common.file_tree]), LAMBDA st2 :
          bind(w(st2, "lib32", [lib32.file_tree EXCEPT !.tree = common.a]),
               LAMBDA st3 :
          bind(w(st3, "lib64", [lib64.file_tree EXCEPT !.tree = common.b]),
               LAMBDA st4 :
            IF is_rfsa THEN w(st4, "rfsa", rfsa.file_tree) ELSE st4))))

\* the body of the first loop of write_product_packages for one partition
write_libs(st, part) ==
    LET is_rfsa == \E i \in 1..Len(RFSA_PARTITIONS) : RFSA_PARTITIONS[i] = part
    IN  bind(IF is_rfsa THEN filtered(st, <<part, "lib", "rfsa">>)
             ELSE [st |-> st, file_tree |-> EmptyTree(FALSE, <<>>)],
             LAMBDA rfsa :
        bind(filtered(rfsa.st, <<part, "lib">>), LAMBDA lib32 :
        bind(filtered(lib32.st, <<part, "lib64">>), LAMBDA lib64 :
            IF lib64.st.error # None THEN lib64.st
            ELSE write_libs_groups(is_rfsa, rfsa, lib32, lib64))))

RECURSIVE write_libs_loop(_, _)
write_libs_loop(st, partitions) ==
    IF partitions = <<>> \/ st.error # None THEN st
    ELSE bind(write_libs(st, partitions[1]), LAMBDA done :
            write_libs_loop(done, Tail(partitions)))

\* `for part in partitions: wp(fn, part, sub_dir)` for each sub_dir in turn
RECURSIVE wp_sub_dirs(_, _, _)
wp_sub_dirs(st, partition, sub_dirs) ==
    IF sub_dirs = <<>> \/ st.error # None THEN st
    ELSE bind(wp(st, partition, sub_dirs[1]), LAMBDA done :
            wp_sub_dirs(done, partition, Tail(sub_dirs)))

RECURSIVE wp_loop(_, _, _)
wp_loop(st, partitions, sub_dirs) ==
    IF partitions = <<>> \/ st.error # None THEN st
    ELSE bind(wp_sub_dirs(st, partitions[1], sub_dirs), LAMBDA done :
            wp_loop(done, Tail(partitions), sub_dirs))

\* `assert not list(base_file_tree)`
assert_consumed(st) ==
    IF st.error # None THEN st
    ELSE IF files_seq(st.base) # <<>>
      THEN [st EXCEPT !.error = "AssertionError"]
    ELSE st

\* write_product_packages(ctx, packages_ctx, base_file_tree)
write_product_packages(base) ==
    bind([base |-> base, written |-> <<>>, error |-> None], LAMBDA st0 :
    bind(write_libs_loop(st0, ALL_PARTITIONS), LAMBDA libs :
    bind(wp_loop(libs, APEX_PARTITIONS, <<"apex">>), LAMBDA apex :
    bind(wp_loop(apex, ALL_PARTITIONS, <<"app", "priv-app">>), LAMBDA app :
    bind(wp_loop(app, ALL_PARTITIONS, <<"framework">>), LAMBDA framework :
    bind(wp_loop(framework, ALL_PARTITIONS, <<"etc">>), LAMBDA etc :
    bind(wp_loop(etc, ALL_PARTITIONS, <<"bin">>), LAMBDA bin :
        assert_consumed(bin))))))))

\* write_product_packages over the package_files of the list that was built
WriteProductPackages ==
    /\ lpc = "built"
    /\ \E st \in {write_product_packages(package_files)} :
           /\ package_files' = st.base
           /\ written' = st.written
           /\ lpc' = IF st.error = None THEN "written" ELSE "asserted"
    /\ UNCHANGED <<lines_in, list_section, check_elf, sorted_files, lidx,
                   list_files, list_pinned_files, package_symlinks,
                   copy_files, replaced, packaged>>
    /\ UNCHANGED not_list_vars

NextList ==
    \/ add_from_lines_sort
    \/ add_file
    \/ WriteProductPackages

NextModule ==
    \/ backup_pinned_files
    \/ cleanup
    \/ restore_from_backup
    \/ process_restored_file
    \/ copy_from_source
    \/ process_kanged_file
    \/ process_found_file
    \/ process_simple_file
    \/ fixup_module_file_raises

IdleModule ==
    /\ kang = FALSE
    /\ no_cleanup = FALSE
    /\ section = None
    /\ blob_fixups = {}
    /\ file = [f \in Files |-> [hash |-> None, fixup_hash |-> None,
                                args |-> {}]]
    /\ vendor = EmptyDir
    /\ prev_vendor = EmptyDir
    /\ restore_tried = {}
    /\ src_tried = {}
    /\ backup = EmptyDir
    /\ pc = "idle"
    /\ idx = 1
    /\ fpc = "begin"
    /\ all_copied = TRUE
    /\ log = [f \in Files |-> <<>>]
    /\ src_copy = EmptyDir
    /\ res_restored = [f \in Files |-> None]
    /\ res_found = [f \in Files |-> None]
    /\ ret = EmptyDir
    /\ warned = [f \in Files |-> FALSE]

(***************************************************************************)
(* ExtractUtils (main.py): process_modules over the files of the modules,  *)
(* then the writing steps of run().  What a copy_file finds is an input of *)
(* each step: 0 for a file that is not there, else its content.            *)
(***************************************************************************)
Modules == 1..NumModules

\* eu_last before the first file
UnpinnedFile == [hash |-> None, fixup_hash |-> None, args |-> {}]

IdleMain ==
    /\ eu_kang = FALSE
    /\ eu_module = 1
    /\ eu_file_no = 1
    /\ eu_module_copied = TRUE
    /\ eu_all_copied = TRUE
    /\ eu_last = [fn |-> None, file |-> UnpinnedFile, materialized |-> FALSE,
                  copied |-> FALSE]
    /\ eu_missing = {}
    /\ eu_failed = {}
    /\ eu_calls = <<>>
    /\ eu_pc = "idle"

\* run(): parse_modules has returned, process_modules begins
InitMain ==
    /\ eu_kang \in BOOLEAN
    /\ eu_module = 1
    /\ eu_file_no = 1
    /\ eu_module_copied = TRUE
    /\ eu_all_copied = TRUE
    /\ eu_last = [fn |-> None, file |-> UnpinnedFile, materialized |-> FALSE,
                  copied |-> FALSE]
    /\ eu_missing = {}
    /\ eu_failed = {}
    /\ eu_calls = <<>>
    /\ eu_pc = "processing"

should_module_fixup_file(has_blob_fixup, fl) ==
    \/ "FIX_XML" \in fl.args
    \/ "FIX_SONAME" \in fl.args
    \/ has_blob_fixup

\* process_module_file: copied from the source or not found
process_module_file_ret(s) ==
    [materialized |-> s # 0, copied |-> s # 0, fixed |-> FALSE]

\* process_module_kanged_file
process_module_kanged_file_ret(s) ==
    [materialized |-> s # 0, copied |-> s # 0, fixed |-> FALSE]

\* process_module_pinned_file: b is what restore_ctx.copy_file finds, s what
\* copy_ctx.copy_file finds, post what fixup_module_file leaves
process_module_pinned_file_ret(fl, b, s, should_fixup, post) ==
    LET restored == b # 0
        content == IF restored THEN b ELSE s
    IN  IF ~restored /\ s = 0
          THEN [materialized |-> FALSE, copied |-> FALSE, fixed |-> FALSE]
        ELSE IF fl.fixup_hash = None
          THEN [materialized |-> TRUE, copied |-> TRUE, fixed |-> FALSE]
        ELSE IF fl.fixup_hash = Hash(content)
          THEN [materialized |-> TRUE, copied |-> TRUE, fixed |-> FALSE]
        ELSE IF ~should_fixup
          THEN [materialized |-> TRUE, copied |-> TRUE, fixed |-> FALSE]
        ELSE IF fl.fixup_hash # Hash(post)
          THEN [materialized |-> TRUE, copied |-> TRUE, fixed |-> TRUE]
        ELSE [materialized |-> TRUE, copied |-> FALSE, fixed |-> TRUE]

\* the loop body of process_module_files after the call: `if not copied:
\* all_copied = False`, and on to the next file
file_processed(fn, fl, r) ==
    /\ eu_last' = [fn |-> fn, file |-> fl, materialized |-> r.materialized,
                   copied |-> r.copied]
    /\ eu_missing' = IF r.materialized THEN eu_missing
                     ELSE eu_missing \cup {<<eu_module, eu_file_no>>}
    /\ eu_failed' = IF r.copied THEN eu_failed
                    ELSE eu_failed \cup {<<eu_module, eu_file_no>>}
    /\ eu_module_copied' = (eu_module_copied /\ r.copied)
    /\ eu_file_no' = eu_file_no + 1
    /\ UNCHANGED <<eu_kang, eu_module, eu_all_copied, eu_calls, eu_pc>>
    /\ UNCHANGED not_main_vars

at_file ==
    /\ eu_pc = "processing"
    /\ eu_module \in Modules
    /\ eu_file_no <= FilesPerModule

process_module_kanged_file(fl, s) ==
    /\ at_file
    /\ eu_kang
    /\ file_processed("process_module_kanged_file", fl,
                      process_module_kanged_file_ret(s))

process_module_pinned_file(fl, b, s, has_blob_fixup, post) ==
    /\ at_file
    /\ ~eu_kang
    /\ fl.hash # None
    /\ file_processed("process_module_pinned_file", fl,
            process_module_pinned_file_ret(
                fl, b, s, should_module_fixup_file(has_blob_fixup, fl), post))

process_module_file(fl, s) ==
    /\ at_file
    /\ ~eu_kang
    /\ fl.hash = None
    /\ file_processed("process_module_file", fl, process_module_file_ret(s))

\* fixup_module_file raises in one of the three: the exception ends run()
fixup_module_file_raises_in_run(fl, b, s, has_blob_fixup) ==
    /\ at_file
    /\ should_module_fixup_file(has_blob_fixup, fl)
    /\ IF eu_kang \/ fl.hash = None
         THEN s # 0
         ELSE process_module_pinned_file_ret(fl, b, s, TRUE, 1).fixed
    /\ eu_pc' = "raised"
    /\ UNCHANGED <<eu_kang, eu_module, eu_file_no, eu_module_copied,
                   eu_all_copied, eu_last, eu_missing, eu_failed, eu_calls>>
    /\ UNCHANGED not_main_vars

\* mutant: process_modules keeps the result of the last module only
process_module_returns_last ==
    /\ eu_pc = "processing"
    /\ eu_module \in Modules
    /\ eu_file_no = FilesPerModule + 1
    /\ eu_all_copied' = eu_module_copied
    /\ eu_module' = eu_module + 1
    /\ eu_file_no' = 1
    /\ eu_module_copied' = TRUE
    /\ eu_pc' = IF eu_module = NumModules THEN "processed" ELSE "processing"
    /\ UNCHANGED <<eu_kang, eu_last, eu_missing, eu_failed, eu_calls>>
    /\ UNCHANGED not_main_vars

\* process_module_files returns all_copied to process_modules: `if not
\* copied: all_copied = False`, then the next module
process_module_returns ==
    /\ eu_pc = "processing"
    /\ eu_module \in Modules
    /\ eu_file_no = FilesPerModule + 1
    /\ eu_all_copied' = (eu_all_copied /\ eu_module_copied)
    /\ eu_module' = eu_module + 1
    /\ eu_file_no' = 1
    /\ eu_module_copied' = TRUE
    /\ eu_pc' = IF eu_module = NumModules THEN "processed" ELSE "processing"
    /\ UNCHANGED <<eu_kang, eu_last, eu_missing, eu_failed, eu_calls>>
    /\ UNCHANGED not_main_vars

\* run(): `if not all_copied: ... return`
run_exits ==
    /\ eu_pc = "processed"
    /\ ~eu_all_copied
    /\ eu_pc' = "returned"
    /\ UNCHANGED <<eu_kang, eu_module, eu_file_no, eu_module_copied,
                   eu_all_copied, eu_last, eu_missing, eu_failed, eu_calls>>
    /\ UNCHANGED not_main_vars

\* run(): self.write_updated_proprietary_files()
write_updated_proprietary_files ==
    /\ eu_pc = "processed"
    /\ eu_all_copied
    /\ eu_calls' = Append(eu_calls, "write_updated_proprietary_files")
    /\ eu_pc' = "writing"
    /\ UNCHANGED <<eu_kang, eu_module, eu_file_no, eu_module_copied,
                   eu_all_copied, eu_last, eu_missing, eu_failed>>
    /\ UNCHANGED not_main_vars

\* run(): self.write_makefiles()
write_makefiles ==
    /\ eu_pc = "writing"
    /\ eu_calls' = Append(eu_calls, "write_makefiles")
    /\ eu_pc' = "returned"
    /\ UNCHANGED <<eu_kang, eu_module, eu_file_no, eu_module_copied,
                   eu_all_copied, eu_last, eu_missing, eu_failed>>
    /\ UNCHANGED not_main_vars

\* what the copy_file of a source finds for one file
Found == 0..MaxContent

NextMain ==
    \/ \E fl \in Entities, s \in Found : process_module_kanged_file(fl, s)
    \/ \E fl \in Entities, b, s \in Found, has_blob_fixup \in BOOLEAN,
          post \in Contents :
            process_module_pinned_file(fl, b, s, has_blob_fixup, post)
    \/ \E fl \in Entities, s \in Found : process_module_file(fl, s)
    \/ \E fl \in Entities, b, s \in Found, has_blob_fixup \in BOOLEAN :
            fixup_module_file_raises_in_run(fl, b, s, has_blob_fixup)
    \/ process_module_returns
    \/ run_exits
    \/ write_updated_proprietary_files
    \/ write_makefiles

\* one run of ExtractUtilsModule.process
Init == InitModule /\ IdleFile /\ IdleTree /\ IdleFixup /\ IdleList
    /\ IdleBlob
    /\ IdleMain

Next == NextModule

Spec == Init /\ [][Next]_vars

\* one directive line parsed and rendered
FileSpecInit == InitFile /\ IdleModule /\ IdleTree /\ IdleFixup /\ IdleList
    /\ IdleBlob
    /\ IdleMain

SpecFile == FileSpecInit /\ [][NextFile]_vars

\* files added to trees, prefixes filtered, common files taken
TreeSpecInit == InitTree /\ IdleModule /\ IdleFile /\ IdleFixup /\ IdleList
    /\ IdleBlob
    /\ IdleMain

SpecTree == TreeSpecInit /\ [][NextTree]_vars

\* steps attached to one blob_fixup and run() called on it
FixupSpecInit ==
    InitFixup /\ IdleModule /\ IdleFile /\ IdleTree /\ IdleList
    /\ IdleBlob
    /\ IdleMain

SpecFixup == FixupSpecInit /\ [][NextFixup]_vars

\* the entities of both: a run of process over its files, or one line parsed
EntityInit == Init \/ FileSpecInit

NextEntity == NextModule \/ NextFile

SpecEntity == EntityInit /\ [][NextEntity]_vars

\* one FileList filled from lines, its packages written
ListSpecInit ==
    InitList /\ IdleModule /\ IdleFile /\ IdleTree /\ IdleFixup
    /\ IdleBlob
    /\ IdleMain

SpecList == ListSpecInit /\ [][NextList]_vars

\* add_line_if_missing applied to a text file
LineSpecInit ==
    InitLine /\ IdleModule /\ IdleFile /\ IdleTree /\ IdleFixup /\ IdleList
    /\ IdleMain

SpecLine == LineSpecInit /\ [][NextLine]_vars

\* sig_replace applied to a binary file
SigSpecInit ==
    InitSig /\ IdleModule /\ IdleFile /\ IdleTree /\ IdleFixup /\ IdleList
    /\ IdleMain

SpecSig == SigSpecInit /\ [][NextSig]_vars

\* one run of ExtractUtils.run
MainSpecInit ==
    InitMain /\ IdleModule /\ IdleFile /\ IdleTree /\ IdleFixup /\ IdleList
    /\ IdleBlob

SpecMain == MainSpecInit /\ [][NextMain]_vars

(***************************************************************************)
(* Properties of the reconciliation (specification Spec).                  *)
(***************************************************************************)
Has(l, e) == \E i \in DOMAIN l : l[i] = e

Before(l, a, b) == \E i, j \in DOMAIN l : i < j /\ l[i] = a /\ l[j] = b

\* not kang and the entity carries a pinned hash (a non-kang run never
\* changes the hashes of an entity)
PinnedMode(f) == ~kang /\ file[f].hash # None

Processed(f) == f \in DOMAIN ret

\* the file process_pinned_file(restored=True) looked at
RestoredSeen(f) == res_restored[f] # None

\* the file process_pinned_file(restored=False) looked at
FoundSeen(f) == res_found[f] # None

BackupFirst(f) ==
    /\ f \in src_tried => f \in restore_tried
    /\ ~Before(log[f], "source", "restore")

\* C1 as stated: in pinned mode the backup restore is attempted before any
\* copy from the live source, and a materialized file whose hash equals the
\* entity's fixup hash gives MATCH with no fixup step run, whether or not a
\* fixup is configured for the file.
C1_AsStated ==
    \A f \in Files : PinnedMode(f) /\ file[f].fixup_hash # None =>
        /\ BackupFirst(f)
        /\ RestoredSeen(f) /\ Hash(backup[f]) = file[f].fixup_hash =>
              res_restored[f] = MATCH /\ ~Has(log[f], "fixup")
        /\ FoundSeen(f) /\ Hash(src_copy[f]) = file[f].fixup_hash =>
              res_found[f] = MATCH /\ ~Has(log[f], "fixup")

\* C1 amended: in pinned mode the backup restore is attempted before any
\* copy from the live source; when the entity has a fixup hash and a fixup
\* is configured for it, a materialized file whose hash equals the fixup
\* hash gives MATCH and no fixup step runs; when the entity has a fixup hash
\* and no fixup is configured the outcome is BAD_FIXUP, whatever the hash
\* of the file, and no fixup step runs.
C1_FixupHashMatch ==
    \A f \in Files : PinnedMode(f) =>
        /\ BackupFirst(f)
        /\ file[f].fixup_hash # None /\ should_fixup_file(f) =>
              /\ RestoredSeen(f) /\ Hash(backup[f]) = file[f].fixup_hash =>
                    res_restored[f] = MATCH /\ ~Has(log[f], "fixup")
              /\ FoundSeen(f) /\ Hash(src_copy[f]) = file[f].fixup_hash =>
                    res_found[f] = MATCH /\ ~Has(log[f], "fixup")
        /\ file[f].fixup_hash # None /\ ~should_fixup_file(f) =>
              /\ RestoredSeen(f) => res_restored[f] = BAD_FIXUP
              /\ FoundSeen(f) => res_found[f] = BAD_FIXUP
              /\ ~Has(log[f], "fixup")

C1_Witness ==
    \E f \in Files :
        /\ PinnedMode(f) /\ file[f].fixup_hash # None /\ should_fixup_file(f)
        /\ file[f].fixup_hash # file[f].hash
        /\ RestoredSeen(f) /\ Hash(backup[f]) = file[f].fixup_hash
        /\ res_restored[f] = MATCH /\ Processed(f) /\ ret[f]

\* C2 as stated: in pinned mode, for every entity without a fixup hash the
\* outcome of process_pinned_file is MATCH if and only if the hash of the
\* materialized file equals the pinned hash and MISMATCH otherwise, and a
\* mismatch on a copied file does not make process_file fail.
C2_AsStated ==
    \A f \in Files : PinnedMode(f) /\ file[f].fixup_hash = None =>
        /\ RestoredSeen(f) =>
              res_restored[f] = IF Hash(backup[f]) = file[f].hash
                                  THEN MATCH ELSE MISMATCH
        /\ FoundSeen(f) =>
              /\ res_found[f] = IF Hash(src_copy[f]) = file[f].hash
                                  THEN MATCH ELSE MISMATCH
              /\ Processed(f) => ret[f]

\* C3 as stated: in pinned mode, for an entity with a fixup hash and a
\* configured fixup whose materialized hash differs from the fixup hash,
\* the fixup is applied and the outcome is MATCH iff the post-fixup hash
\* equals the fixup hash, BAD_FIXUP otherwise.
C3_AsStated ==
    \A f \in Files :
        PinnedMode(f) /\ file[f].fixup_hash # None /\ should_fixup_file(f) =>
            /\ RestoredSeen(f) /\ Hash(backup[f]) # file[f].fixup_hash =>
                  /\ Has(log[f], "fixup")
                  /\ res_restored[f] = IF Hash(vendor[f]) = file[f].fixup_hash
                                         THEN MATCH ELSE BAD_FIXUP
            /\ FoundSeen(f) /\ Hash(src_copy[f]) # file[f].fixup_hash =>
                  /\ Has(log[f], "fixup")
                  /\ res_found[f] = IF Hash(vendor[f]) = file[f].fixup_hash
                                      THEN MATCH ELSE BAD_FIXUP

\* C3 amended: in pinned mode, for an entity with a fixup hash and a
\* configured fixup whose materialized hash differs from the fixup hash:
\* if the materialized hash equals the pinned hash the fixup is applied and
\* the outcome is MATCH iff the post-fixup hash equals the fixup hash,
\* BAD_FIXUP otherwise; if it differs from the pinned hash too the outcome
\* is MISMATCH and the fixup is not applied to that copy.
C3_FixupApplied ==
    \A f \in Files :
        PinnedMode(f) /\ file[f].fixup_hash # None /\ should_fixup_file(f) =>
            /\ RestoredSeen(f) /\ Hash(backup[f]) # file[f].fixup_hash =>
                  IF Hash(backup[f]) = file[f].hash
                    THEN /\ log[f] = <<"restore", "fixup">>
                         /\ res_restored[f] =
                              IF Hash(vendor[f]) = file[f].fixup_hash
                                THEN MATCH ELSE BAD_FIXUP
                    ELSE /\ res_restored[f] = MISMATCH
                         /\ Len(log[f]) >= 2 => log[f][2] = "source"
            /\ FoundSeen(f) /\ Hash(src_copy[f]) # file[f].fixup_hash =>
                  IF Hash(src_copy[f]) = file[f].hash
                    THEN /\ log[f][Len(log[f])] = "fixup"
                         /\ res_found[f] =
                              IF Hash(vendor[f]) = file[f].fixup_hash
                                THEN MATCH ELSE BAD_FIXUP
                    ELSE /\ res_found[f] = MISMATCH
                         /\ log[f][Len(log[f])] = "source"

C3_Witness ==
    \E f \in Files :
        /\ PinnedMode(f) /\ file[f].fixup_hash # None /\ should_fixup_file(f)
        /\ FoundSeen(f) /\ Hash(src_copy[f]) # file[f].fixup_hash
        /\ Hash(src_copy[f]) = file[f].hash
        /\ Has(log[f], "fixup")
        /\ res_found[f] = BAD_FIXUP

\* C4 as stated: in pinned mode the backup is tried first and the live
\* source is copied if and only if the file is absent from the backup; a
\* file restored from the backup is never afterwards overwritten by a copy
\* from the live source.
C4_AsStated ==
    \A f \in Files : PinnedMode(f) =>
        /\ BackupFirst(f)
        /\ Processed(f) => (f \in src_tried <=> f \notin DOMAIN backup)
        /\ ~Before(log[f], "restore", "source")

\* C4 amended: in pinned mode the backup is tried first and the live source
\* is copied if and only if the file is absent from the backup or the
\* verification of the restored copy ended in MISMATCH; a file restored
\* from the backup is overwritten by a copy from the live source only after
\* such a MISMATCH, never after MATCH or BAD_FIXUP.
C4_SourceAfterMismatch ==
    \A f \in Files : PinnedMode(f) =>
        /\ BackupFirst(f)
        /\ Processed(f) =>
              (f \in src_tried <=>
                  (f \notin DOMAIN backup \/ res_restored[f] = MISMATCH))
        /\ Before(log[f], "restore", "source") => res_restored[f] = MISMATCH

C4_Witness ==
    \E f \in Files :
        /\ PinnedMode(f) /\ Processed(f)
        /\ res_restored[f] = MISMATCH
        /\ Before(log[f], "restore", "source")

NotFoundAnywhere(f) ==
    f \in src_tried /\ f \notin DOMAIN src_copy /\ f \notin DOMAIN backup

BadFixup(f) == res_restored[f] = BAD_FIXUP \/ res_found[f] = BAD_FIXUP

\* C5 as stated: process_proprietary_files returns False only if some file
\* was found in neither the backup nor the live source or some file's pin
\* verification ended in BAD_FIXUP, and every BAD_FIXUP outcome, on a
\* restored copy or on a source copy, makes it return False.
C5_AsStated ==
    pc = "done" =>
        /\ ~all_copied => \E f \in Files : NotFoundAnywhere(f) \/ BadFixup(f)
        /\ \A f \in Files : BadFixup(f) => ~all_copied

\* C6: after process_kanged_file on a file copied from the source, the
\* entity's pinned hash is the hash of the copied content, its fixup hash is
\* the hash of the content after the fixups when a fixup is configured and
\* None otherwise, whatever pins it had before, and the warning is printed
\* exactly when the fixups ran and the two hashes are equal.
C6_KangRecordsHashes ==
    \A f \in Files : kang /\ Processed(f) /\ ret[f] =>
        /\ file[f].hash = Hash(src_copy[f])
        /\ Has(log[f], "fixup") <=> should_fixup_file(f)
        /\ file[f].fixup_hash =
              IF should_fixup_file(f) THEN Hash(vendor[f]) ELSE None
        /\ warned[f] <=>
              (Has(log[f], "fixup") /\ Hash(src_copy[f]) = Hash(vendor[f]))

C6_Witness ==
    \E f, g \in Files :
        /\ kang /\ Processed(f) /\ ret[f] /\ Processed(g) /\ ret[g]
        /\ should_fixup_file(f) /\ ~warned[f]
        /\ file[f].fixup_hash = Hash(vendor[f])
        /\ file[f].fixup_hash # file[f].hash
        /\ ~should_fixup_file(g) /\ file[g].fixup_hash = None

\* a pinned entity without fixup hash whose pinned hash is the hash of the
\* file the previous run left in the output tree, reconciled by a non-kang
\* run
PinnedOnDisk(f) ==
    /\ PinnedMode(f) /\ file[f].fixup_hash = None
    /\ f \in DOMAIN prev_vendor /\ Hash(prev_vendor[f]) = file[f].hash
    /\ Processed(f)

\* C7 as stated: for a pinned file without fixup hash whose pinned hash is
\* the hash of the file on disk in the output tree, reconciliation reports
\* success and writes nothing to the output file.
C7_AsStated ==
    \A f \in Files : PinnedOnDisk(f) => ret[f] /\ log[f] = <<>>

\* C7 amended: for such a file reconciliation reports success and never
\* copies from the live source, but the output file is written: the restore
\* from the backup rewrites it with the content it had, and the fixups run
\* on it afterwards if and only if a fixup is configured for the file.
C7_RestoredUnchanged ==
    \A f \in Files : PinnedOnDisk(f) =>
        /\ ret[f] /\ res_restored[f] = MATCH
        /\ f \notin src_tried
        /\ IF should_fixup_file(f)
             THEN log[f] = <<"restore", "fixup">>
             ELSE log[f] = <<"restore">> /\ vendor[f] = prev_vendor[f]

C7_Witness ==
    \E f \in Files :
        /\ PinnedOnDisk(f) /\ ~should_fixup_file(f)
        /\ section = None /\ ~no_cleanup
        /\ log[f] = <<"restore">> /\ ret[f]


\* C11, as stated: when a fixup tool exits non-zero while a file is being
\* fixed up, only that file's fixup is abandoned: the outcome of the file
\* is bad-fixup and every other file of the run is still reconciled.  In
\* the code the ValueError of run_cmd is caught nowhere and ends the run.
C11_AsStated ==
    pc = "raised" =>
        /\ BadFixup(idx)
        /\ \A f \in Files : Processed(f)

\* the step in which the copy from the live source fails for file idx
NotFoundStep ==
    /\ idx \notin src_tried
    /\ idx \in src_tried'
    /\ idx \notin DOMAIN src_copy'

\* C12: a file found neither in the live source nor in the backup does not
\* stop the run: the step that fails to find it records False for the file
\* and moves to the next file (or to the end after the last one); the loop
\* takes the files one by one, each once; and when the run has returned
\* every file has been processed and the result is False if some file was
\* found in neither place.
C12_NotFoundContinues ==
    /\ [](pc = "done" =>
            /\ DOMAIN ret = Files
            /\ (\E f \in Files : NotFoundAnywhere(f)) => ~all_copied)
    /\ [][NotFoundStep =>
            /\ ret' = Put(ret, idx, FALSE)
            /\ idx' = idx + 1
            /\ pc' = IF idx = NumFiles THEN "done" ELSE "files"]_vars
    /\ [][ret' # ret =>
            /\ idx \notin DOMAIN ret
            /\ DOMAIN ret' = DOMAIN ret \cup {idx}
            /\ idx' = idx + 1]_vars

\* the first file was found nowhere, the second one was copied afterwards,
\* and the run has returned False
C12_Witness ==
    /\ pc = "done"
    /\ NotFoundAnywhere(1)
    /\ ret[1] = FALSE
    /\ 2 \in DOMAIN src_copy
    /\ ret[2] = TRUE
    /\ ~all_copied

\* no file has been reconciled yet
NothingReconciled ==
    /\ restore_tried = {}
    /\ src_tried = {}
    /\ ret = EmptyDir
    /\ \A f \in Files : log[f] = <<>>

\* C13: in a non-kang run every pinned file that the previous run left in
\* the output tree is in the backup directory, with the content it had,
\* from the end of the backup step on; until that step and the cleanup
\* step are over the output tree is as the previous run left it or (after
\* cleanup) wiped, and no file has been reconciled; and the cleanup step
\* wipes the tree if no section is given and cleanup is not disabled, and
\* leaves it as it was otherwise.
C13_BackupBeforeCleanup ==
    /\ pc = "backup" => vendor = prev_vendor /\ NothingReconciled
    /\ pc = "cleanup" => vendor = prev_vendor /\ NothingReconciled
    /\ (~kang /\ pc # "backup") =>
          \A f \in Files : file[f].hash # None /\ f \in DOMAIN prev_vendor =>
              f \in DOMAIN backup /\ backup[f] = prev_vendor[f]
    /\ (pc = "files" /\ idx = 1 /\ fpc = "begin") =>
          /\ NothingReconciled
          /\ vendor = IF section = None /\ ~no_cleanup
                        THEN EmptyDir ELSE prev_vendor
    /\ (section # None \/ no_cleanup) =>
          \A f \in DOMAIN prev_vendor : f \in DOMAIN vendor

\* a non-kang run has wiped an output tree that held a pinned file, after
\* it copied that file to the backup, and has restored it from there
C13_Witness ==
    \E f \in Files :
        /\ ~kang /\ section = None /\ ~no_cleanup
        /\ file[f].hash # None /\ f \in DOMAIN prev_vendor
        /\ f \in DOMAIN backup /\ backup[f] = prev_vendor[f]
        /\ log[f] = <<"restore">>
        /\ \E g \in DOMAIN prev_vendor : g \notin DOMAIN vendor

\* C30: as stated, when process_file returns False for a pinned file
\* because the copy from the live source found nothing, nothing was written
\* at the file's output path during the call, no copy restored from the
\* backup either.  Not an invariant.
C30_AsStated ==
    \A f \in Files :
        (/\ PinnedMode(f) /\ Processed(f)
         /\ ~ret[f]
         /\ f \in src_tried /\ f \notin DOMAIN src_copy)
        => log[f] = <<>>

(***************************************************************************)
(* Properties of blob_fixup (specification SpecFixup).                     *)
(***************************************************************************)

\* C14: one run() call creates at most one temporary directory, and one
\* only if an attached step declared need_tmp_dir; every step the call has
\* run was given the same tmp_dir, which is that directory if one was
\* created; and once run() has returned or raised no temporary directory
\* exists.
C14_OneTmpDir ==
    /\ made <= 1
    /\ made = 1 => \E i \in 1..Len(functions) : functions[i]
    /\ \A i \in 1..Len(received) : received[i] = tmp_dir
    /\ (bpc # "build" /\ made = 1) => tmp_dir # 0
    /\ (bpc = "running" /\ made = 1) => tmp_dirs = {tmp_dir}
    /\ (bpc = "running" /\ made = 0) => tmp_dir = 0 /\ tmp_dirs = {}
    /\ bpc \in {"build", "returned", "raised"} => tmp_dirs = {}

\* a second run() got a fresh directory, handed it to a step that had not
\* asked for one and to one that had, and then raised
C14_Witness ==
    /\ bpc = "raised"
    /\ nruns = 2
    /\ made = 1
    /\ tmp_dir = 2
    /\ functions = <<FALSE, TRUE>>
    /\ received = <<2, 2>>
    /\ tmp_dirs = {}

\* the steps apktool_patch attaches, in its order
ApktoolSteps == <<"apktool_unpack", "patch_dir", "apktool_pack", "stripzip">>

\* C23: run() invokes the attached steps one by one in the order of
\* attachment, each at most once; it returns after it has invoked them
\* all, and a step that raises is the last one invoked; what was invoked
\* stays invoked (nothing is undone); and the steps of apktool_patch are
\* attached as unpack, patch, pack, stripzip, next to each other, and are
\* given one and the same work directory.
C23_StepsInOrder ==
    /\ [](/\ invoked = [i \in 1..Len(invoked) |-> i]
          /\ Len(invoked) <= Len(functions)
          /\ Len(received) = Len(invoked))
    /\ [](bpc = "raised" => Len(invoked) = step)
    /\ [](bpc = "running" => Len(invoked) = step - 1)
    /\ [][(bpc = "running" /\ bpc' = "returned")
            => invoked' = [i \in 1..Len(functions) |-> i]]_vars
    /\ [][bpc = "running"
            => SubSeq(invoked', 1, Len(invoked)) = invoked]_vars
    /\ [][(bpc # "running" /\ bpc' # "running")
            => invoked' = invoked]_vars
    /\ [](\A i \in 1..Len(names) :
            names[i] = "apktool_unpack" =>
              /\ i + 3 <= Len(names)
              /\ SubSeq(names, i, i + 3) = ApktoolSteps
              /\ \A j \in i..(i + 3) :
                    j <= Len(received) =>
                        received[j] = received[i] /\ received[j] # 0)

\* run() has invoked every step of apktool_patch and has returned, and a
\* second run() has stopped at a patch step that raised
C23_Witness ==
    /\ names = ApktoolSteps
    /\ nruns = 2
    /\ bpc = "raised"
    /\ invoked = <<1, 2>>
    /\ received = <<2, 2>>

(***************************************************************************)
(* Properties of File (specification SpecFile).                            *)
(***************************************************************************)
\* the directive lines of the grammar among the lines of the model: a
\* source, an optional ':destination' (also one equal to the source),
\* arguments with the value their type requires, at most two hashes
ValidLines ==
    {concat(<<dash, <<"a">>, dst, concat(args), concat(hashes)>>) :
        dash \in {<<>>, <<"-">>},
        dst \in {<<>>, <<":", "a">>, <<":", "b">>},
        args \in SeqsUpTo({<<";", "AB">>, <<";", "MODULE", "=", "a">>,
                           <<";", "MODULE", "=", "b">>,
                           <<";", "OVERRIDES", "=", "a">>,
                           <<";", "OVERRIDES", "=", "a", ",", "b">>},
                          MaxArgs),
        hashes \in SeqsUpTo({<<"|", "a">>, <<"|", "b">>}, 2)}

\* position of the first symbol of s that is in C (Len(s) + 1 if none is)
RECURSIVE first_of(_, _, _)
first_of(s, C, i) ==
    IF i > Len(s) \/ s[i] \in C THEN i ELSE first_of(s, C, i + 1)

\* a line without its ';' clauses, and its ';' clauses
WithoutArgs(s) ==
    SubSeq(s, 1, first_of(s, {";", "|"}, 1) - 1)
        \o SubSeq(s, first_of(s, {"|"}, 1), Len(s))

ArgsOf(s) ==
    LET semi == first_of(s, {";"}, 1)
        bar == first_of(s, {"|"}, 1)
    IN  IF semi > Len(s) THEN <<>>
        ELSE split(SubSeq(s, semi + 1, bar - 1), ";")

\* r is d up to the order of its arguments
SameUpToArgOrder(r, d) ==
    /\ WithoutArgs(r) = WithoutArgs(d)
    /\ Len(ArgsOf(r)) = Len(ArgsOf(d))
    /\ \/ ArgsOf(d) = <<>>
       \/ \E perm \in Permutations(1..Len(ArgsOf(d))) :
            \A i \in 1..Len(ArgsOf(d)) : ArgsOf(r)[i] = ArgsOf(d)[perm[i]]

\* C8, as stated: for every valid directive line d, str(File(d)) equals d
\* up to the order of its arguments.  File.__str__ writes every argument
\* name as 'FileArgs.<NAME>', so that no line with an argument comes back
\* (nor is what comes back a line File accepts).
C8_AsStated ==
    (ppc = "rendered" /\ line \in ValidLines)
        => SameUpToArgOrder(rendered, line)

\* the ';' clauses of the stripped line, each a sequence of symbols
ArgClausesOf(l) == ArgsOf(strip(l))

\* a ';' clause the grammar forbids: a flag with '=value', a scalar or a
\* list without '=value', or a name that is not an argument name
BadArgClause(c) ==
    LET k_v == IF index_of(c, "=", 1) = 0 THEN <<c>>
               ELSE <<SubSeq(c, 1, index_of(c, "=", 1) - 1),
                      SubSeq(c, index_of(c, "=", 1) + 1, Len(c))>>
        k == IF Len(k_v[1]) = 1 THEN k_v[1][1] ELSE ""
    IN  \/ k \notin DOMAIN FILE_ARGS_TYPE_MAP
        \/ FILE_ARGS_TYPE_MAP[k] = "True" /\ Len(k_v) = 2
        \/ FILE_ARGS_TYPE_MAP[k] \in {"str", "list"} /\ Len(k_v) = 1

HasBadArg(l) ==
    \E i \in 1..Len(ArgClausesOf(l)) : BadArgClause(ArgClausesOf(l)[i])

\* C15, as stated: a line with a flag argument given '=value', a scalar or
\* list argument given without a value, or an unknown argument name is
\* rejected and gives no File.  A scalar argument without a value
\* (';MODULE') is taken: set_arg gets v = True for it, and `not v` is false.
C15_AsStated ==
    (ppc # "line" /\ HasBadArg(line)) => ppc = "raised"

\* the number of '|' in the line
RECURSIVE count_of(_, _)
count_of(s, c) ==
    IF s = <<>> THEN 0
    ELSE (IF s[1] = c THEN 1 ELSE 0) + count_of(Tail(s), c)

\* an empty hash after '|' or an empty value after '=' in the stripped line
HasEmptySegment(l) ==
    LET s == strip(l)
    IN  \E i \in 1..Len(s) :
            /\ s[i] \in {"|", "="}
            /\ i = Len(s) \/ s[i + 1] \in SEPARATORS

\* C16, as stated: a line with more than two '|' clauses, or with an empty
\* hash after '|' or an empty value after '=', raises and gives no File.
\* EXTRA_REGEX never matches an empty segment, so that a '|' with nothing
\* after it is skipped, and is not counted as a hash either.
C16_AsStated ==
    (ppc # "line" /\ (count_of(line, "|") > 2 \/ HasEmptySegment(line)))
        => ppc = "raised"

(***************************************************************************)
(* Properties of the file trees (specification SpecTree).                  *)
(***************************************************************************)
\* C9: FileTree.add of a file whose destination path already holds a list
\* of files raises the duplicate-entry error in a FileTree that is not
\* common and leaves the list (and the whole tree) as it was, holding its
\* one file; in a CommonFileTree the same add succeeds and the list then
\* holds the files it held and the new one.
C9_DuplicateEntry ==
    (last.op = "add" /\ last.held # <<>>)
        => IF last.target = "FileTree"
             THEN /\ last.error = "ValueError"
                  /\ last.tree_kept
                  /\ Leaf(base_file_tree.tree, last.f.parts) = last.held
                  /\ Len(last.held) = 1
                  /\ last.f \notin files_of(base_file_tree)
             ELSE /\ last.error = None
                  /\ Leaf(lib_common_tree.tree, last.f.parts)
                        = Append(last.held, last.f)

\* a file whose path held a list has been added to a FileTree, which
\* refused it, and to a CommonFileTree, whose list now holds two files
C9_Witness ==
    /\ dup_seen = {"FileTree", "CommonFileTree"}
    /\ last.op = "add"
    /\ last.held # <<>>
    /\ \E p \in CommonDsts : Len(Leaf(lib_common_tree.tree, p)) = 2
    /\ \E p \in Dsts : Len(Leaf(base_file_tree.tree, p)) = 1

\* C10: after CommonFileTree.common_files(A, B) has returned, for trees A
\* and B filtered to prefixes of the same depth, no file of the result is
\* still in a list that iterating A or B goes through.
C10_CommonDetached ==
    (last.op = "common" /\ last.error = None)
        => files_of(lib_common_tree)
              \cap (files_of(lib32_tree) \cup files_of(lib64_tree)) = {}

\* common_files has moved the files of a common path to the result, and
\* files remain in one of the two trees
C10_Witness ==
    /\ last.op = "common"
    /\ last.error = None
    /\ Len(lib32_tree.parts) = 2
    /\ Len(lib64_tree.parts) = 2
    /\ Cardinality(files_of(lib_common_tree)) >= 2
    /\ files_of(lib32_tree) \cup files_of(lib64_tree) # {}

\* a step of TreeFilter in which filter_prefixed returned
FilterReturned ==
    /\ nfilters' = nfilters + 1
    /\ last'.op = "filter"
    /\ last'.error = None

\* C18: when base_file_tree.filter_prefixed(p) returns, after any adds,
\* filters and common_files, the tree it returns yields exactly the files
\* the parent yielded under p, the parent yields exactly the files it
\* yielded that are not under p, and filter_prefixed(p) on the parent as it
\* is now returns an empty tree.
C18_DestructiveRead ==
    [][FilterReturned =>
        LET returned == IF last'.target = "lib32_tree" THEN lib32_tree'
                        ELSE lib64_tree'
            prefix == returned.parts
            again == filter_prefixed(base_file_tree', prefix)
        IN  /\ files_of(returned) =
                  {f \in files_of(base_file_tree) : IsUnder(prefix, f.parts)}
            /\ files_of(base_file_tree') =
                  {f \in files_of(base_file_tree) : ~IsUnder(prefix, f.parts)}
            /\ again.error = None
            /\ files_of(again.file_tree) = {}
            /\ again.file_tree.tree = <<>>]_vars

\* a second filter has returned files of a tree that still holds others,
\* after a first filter and three adds
C18_Witness ==
    /\ last.op = "filter"
    /\ last.error = None
    /\ last.target = "lib64_tree"
    /\ nfilters = 2
    /\ nadds >= 3
    /\ files_of(lib32_tree) # {}
    /\ files_of(lib64_tree) # {}
    /\ files_of(base_file_tree) # {}

\* a step of TreeCommon in which common_files returned
CommonReturned ==
    /\ last'.op = "common"
    /\ last'.error = None

\* the paths of the entries of a dict
paths_of(t) == {t[i].path : i \in 1..Len(t)}

\* C21: when common_files(A, B) returns, for A and B filtered to prefixes
\* of the same depth, its result has a list at a relative path exactly if
\* the path holds a list in A and in B, and that list is the file of A
\* followed by the file of B.
C21_CommonLeaves ==
    [][CommonReturned =>
        \A q \in paths_of(lib32_tree.tree) \cup paths_of(lib64_tree.tree)
                    \cup paths_of(lib_common_tree'.tree) :
            Leaf(lib_common_tree'.tree, q) =
                IF Leaf(lib32_tree.tree, q) # <<>>
                   /\ Leaf(lib64_tree.tree, q) # <<>>
                  THEN Leaf(lib32_tree.tree, q) \o Leaf(lib64_tree.tree, q)
                  ELSE <<>>]_vars

\* common_files has returned one list, the file added under vendor/lib
\* followed by the file added under vendor/lib64
C21_Witness ==
    /\ last.op = "common"
    /\ last.error = None
    /\ lib32_tree.parts = <<"vendor", "lib">>
    /\ lib64_tree.parts = <<"vendor", "lib64">>
    /\ \E fs \in {Leaf(lib_common_tree.tree, <<"libfoo.so">>)} :
          /\ Len(fs) = 2
          /\ fs[1].parts = <<"vendor", "lib", "libfoo.so">>
          /\ fs[2].parts = <<"vendor", "lib64", "libfoo.so">>

\* the files of ft whose relative path holds no list in the dict other
only_in(ft, other) ==
    {f \in files_of(ft) :
        Leaf(other, SubSeq(f.parts, Len(ft.parts) + 1, Len(f.parts))) = <<>>}

\* C22: when common_files(A, B) returns, A yields exactly the files it
\* yielded whose relative path held no list in B, and B exactly the files
\* it yielded whose relative path held no list in A.
C22_OnlyOneSideKept ==
    [][CommonReturned =>
        /\ files_of(lib32_tree') = only_in(lib32_tree, lib64_tree.tree)
        /\ files_of(lib64_tree') = only_in(lib64_tree, lib32_tree.tree)]_vars

\* common_files has taken the library of both trees and has left in place
\* the rfsa library that only the tree of vendor/lib held
C22_Witness ==
    /\ last.op = "common"
    /\ last.error = None
    /\ Len(Leaf(lib_common_tree.tree, <<"libfoo.so">>)) = 2
    /\ \E f \in files_of(lib32_tree) :
          f.parts = <<"vendor", "lib", "rfsa", "libfoo.so">>
    /\ Leaf(lib32_tree.tree, <<"libfoo.so">>) = <<>>
    /\ files_of(lib64_tree) = {}

\* C27: as stated, common_files ends without an assertion failure for
\* every pair of trees that filter_prefixed took out of a FileTree built
\* with add, here the trees of vendor/lib and vendor/lib64.  Not an
\* invariant.
C27_AsStated ==
    (/\ last.op = "common"
     /\ lib32_tree.parts = <<"vendor", "lib">>
     /\ lib64_tree.parts = <<"vendor", "lib64">>)
    => last.error = None

(***************************************************************************)
(* Properties of the entities (specification SpecEntity).                 *)
(***************************************************************************)

\* C20: in every state of a run of process, kang or not, and for every File
\* that File.__init__ has returned, an entity that has a fixup hash has a
\* pinned hash.
C20_FixupHashHasPin ==
    /\ \A f \in Files : file[f].fixup_hash # None => file[f].hash # None
    /\ ppc \in {"parsed", "rendered"} =>
          (parsed.fixup_hash # NoneStr => parsed.hash # NoneStr)

\* a kang run has fixed up a file that had no hash and has recorded its
\* pre-fixup and post-fixup hashes, and has pinned a file it did not fix up
C20_Witness ==
    /\ kang
    /\ pc = "done"
    /\ \E f \in Files :
        /\ "fixup" \in {log[f][i] : i \in 1..Len(log[f])}
        /\ file[f].hash = Hash(src_copy[f])
        /\ file[f].fixup_hash = Hash(vendor[f])
        /\ file[f].fixup_hash # file[f].hash
    /\ \E f \in Files :
        /\ f \in DOMAIN src_copy
        /\ file[f].hash = Hash(src_copy[f])
        /\ file[f].fixup_hash = None

(***************************************************************************)
(* Properties of FileList and write_product_packages (specification       *)
(* SpecList).                                                              *)
(***************************************************************************)

\* two of the lines have the same destination
HasDuplicateDst ==
    \E i, j \in 1..Len(lines_in) :
        i # j /\ lines_in[i].file.dst = lines_in[j].file.dst

\* add_from_lines has returned
ListBuilt == lpc \in {"built", "written", "asserted"}

\* C17, as stated: when two lines of one list have the same destination,
\* add_from_lines fails with the duplicate-entry error, whatever the kind
\* of the files, and no collection of the FileList has dropped or replaced a
\* file.  Only package_files refuses a second file: files, pinned_files,
\* copy_files and package_symlinks are dicts keyed by dst, and the second
\* file takes the place of the first.
C17_AsStated ==
    /\ (lpc # "lines" /\ lpc # "adding" /\ HasDuplicateDst) => lpc = "raised"
    /\ ListBuilt => replaced = {}

\* the number of packages written for f
times_written(f) == Cardinality({i \in 1..Len(written) : written[i].file = f})

\* C19, as stated: write_product_packages writes every file of the package
\* tree in exactly one group and its final assertion holds, for every
\* package tree a FileList builds.  A package outside the directories the
\* function filters is left in the tree and the final assertion fails; rfsa
\* libraries in both lib and lib64 make common_files fail before that.
C19_AsStated ==
    lpc \in {"written", "asserted"} =>
        /\ lpc = "written"
        /\ \A f \in packaged : times_written(f) = 1
        /\ \A i \in 1..Len(written) : written[i].file \in packaged

\* C28: as stated, after add_from_lines every file of the lines is in
\* package_files or in copy_files, and one that is in both carries
\* MAKE_COPY_RULE, also when it is a package by its '-' only.  Not an
\* invariant.
C28_AsStated ==
    (ListBuilt /\ ~HasDuplicateDst) =>
        \A i \in 1..Len(lines_in) :
            LET f == lines_in[i].file
                in_package_files == f \in packaged
                in_copy_files ==
                    f.dst \in DOMAIN copy_files /\ copy_files[f.dst] = f
            IN  /\ in_package_files \/ in_copy_files
                /\ (in_package_files /\ in_copy_files)
                        => "MAKE_COPY_RULE" \in f.args

\* what does hold: a file is in copy_files exactly when it is no package by
\* its path or carries MAKE_COPY_RULE, whatever its '-'
CopyFilesByPath ==
    (ListBuilt /\ ~HasDuplicateDst) =>
        \A i \in 1..Len(lines_in) :
            LET f == lines_in[i].file
            IN  /\ f \in packaged
                    <=> (is_file_package(f, check_elf) \/ f.is_package)
                /\ (f.dst \in DOMAIN copy_files /\ copy_files[f.dst] = f)
                    <=> (~is_file_package(f, check_elf)
                            \/ "MAKE_COPY_RULE" \in f.args)

(***************************************************************************)
(* Properties of the content fixups (specifications SpecLine and SpecSig). *)
(***************************************************************************)
\* the number of lines of s that are equal to text
line_count(text, s) ==
    Cardinality({i \in 1..Len(readlines(s)) :
                    rstrip_newline(readlines(s)[i]) = text})

\* the content after the first application
after_first == IF Len(blob_hist) = 1 THEN blob ELSE blob_hist[2]

\* C24: as stated, add_line_if_missing is idempotent for every file
\* content (a second application leaves the file as the first left it),
\* and a file that had no line equal to text has exactly one after it,
\* also when its last line is not terminated.  Not an invariant.
C24_AsStated ==
    /\ Len(blob_hist) = 2 => blob = blob_hist[2]
    /\ (Len(blob_hist) >= 1 /\ line_count(blob_fn.text, blob_hist[1]) = 0)
            => line_count(blob_fn.text, after_first) = 1

\* what does hold: for a file that is empty or ends with a newline
TerminatedFilesIdempotent ==
    (Len(blob_hist) >= 1
        /\ (blob_hist[1] = <<>> \/ blob_hist[1][Len(blob_hist[1])] = "\n"))
    => /\ Len(blob_hist) = 2 => blob = blob_hist[2]
       /\ line_count(blob_fn.text, blob_hist[1]) = 0
            => line_count(blob_fn.text, after_first) = 1

\* the spec's reading of a pattern: '??' is any byte, every other token
\* is exactly its byte
token_matches(tok, d) == tok = "??" \/ fromhex(tok) = d

pattern_matches_at(tokens, data, i) ==
    /\ i + Len(tokens) - 1 <= Len(data)
    /\ \A k \in 1..Len(tokens) : token_matches(tokens[k], data[i + k - 1])

\* the first position where the pattern matches in that reading, 0 if none
first_match(tokens, data) ==
    IF \E i \in 1..(Len(data) + 1) : pattern_matches_at(tokens, data, i)
      THEN CHOOSE i \in 1..(Len(data) + 1) :
                /\ pattern_matches_at(tokens, data, i)
                /\ \A j \in 1..(i - 1) : ~pattern_matches_at(tokens, data, j)
      ELSE 0

\* C25: as stated, sig_replace writes the replacement at the first
\* position where the pattern matches ('??' any byte, every other token
\* exactly its byte) and nowhere else, leaves the length of the file as it
\* was, and leaves a file without a match unchanged.  Not an invariant.
C25_AsStated ==
    (blob_fn.kind = "sig_replace" /\ Len(blob_hist) >= 1) =>
        LET data == blob_hist[1]
            p == first_match(blob_fn.pattern_str, data)
            n == Len(blob_fn.replacement_str)
        IN  /\ Len(after_first) = Len(data)
            /\ p = 0 => after_first = data
            /\ p # 0 =>
                \A i \in 1..Len(data) :
                    after_first[i] =
                        IF i \in p..(p + n - 1)
                          THEN fromhex(blob_fn.replacement_str[i - p + 1])
                          ELSE data[i]

(***************************************************************************)
(* Properties of ExtractUtils (specification SpecMain).                    *)
(***************************************************************************)
\* the files of module m that no copy_file found
missing_of(m) == {x \in eu_missing : x[1] = m}

\* C26: as stated, process_module_pinned_file returns True exactly when
\* the file was materialized, from the backup or from the source, and
\* process_module_files reports a failure exactly when some file of the
\* module was found nowhere.  Not an invariant.
C26_AsStated ==
    /\ eu_last.fn = "process_module_pinned_file"
            => (eu_last.copied <=> eu_last.materialized)
    /\ (~eu_kang /\ eu_pc = "processing" /\ eu_file_no = FilesPerModule + 1)
            => (eu_module_copied <=> missing_of(eu_module) = {})

\* C29: run() calls write_updated_proprietary_files and then
\* write_makefiles, and only when process_modules has gone through every
\* file of every module and none of them failed to copy; when some file
\* failed to copy, it calls neither.
C29_WritesOnlyAfterAllCopied ==
    /\ eu_calls \in {<<>>, <<"write_updated_proprietary_files">>,
                     <<"write_updated_proprietary_files", "write_makefiles">>}
    /\ eu_calls # <<>> =>
        /\ eu_module = NumModules + 1
        /\ eu_failed = {}
        /\ eu_missing = {}
    /\ (eu_failed # {} \/ eu_missing # {}) => eu_calls = <<>>
    /\ (eu_pc = "returned" /\ eu_failed = {})
            => eu_calls = <<"write_updated_proprietary_files",
                            "write_makefiles">>

\* run() has returned without a call: the first file of the first module
\* was not found, all the others were copied
C29_Witness ==
    /\ eu_pc = "returned"
    /\ eu_missing = {<<1, 1>>}
    /\ eu_failed = {<<1, 1>>}
    /\ eu_last.copied
    /\ eu_calls = <<>>

\* run() has returned after both calls
C29_BothWritten ==
    /\ eu_pc = "returned"
    /\ eu_kang
    /\ eu_calls = <<"write_updated_proprietary_files", "write_makefiles">>

====
